---- MODULE Spec2Model ----
(***************************************************************************)
(* fix-react2shell-next: version model, advisory rule, resolver            *)
(* (analyzePackageJson) and minimal-fix planner (computeMinimalFixes).     *)
(*                                                                         *)
(* Strings are sequences of UTF-16 code units, each a string of its own,   *)
(* so that the regular expressions of lib/utils/version.js are modelled by *)
(* what they match.  The JavaScript value null is NULL for strings and     *)
(* NullVersion for parsed versions.                                        *)
(***************************************************************************)
EXTENDS Integers, Sequences, FiniteSets, TLC

VARIABLES
    op,         \* utility call: name of the function that was called
    args,       \* utility call: its arguments
    ret,        \* utility call: its return value
    pc,         \* pipeline: position in run()
    manifestOk, \* pipeline: package.json can be read and parsed
    pkgJson,    \* pipeline: what JSON.parse makes of it, the blocks apart
    deps,       \* pipeline: package.json dependencies block
    devDeps,    \* pipeline: package.json devDependencies block
                \* (in the runs of SpecRun these four have one element per
                \* package.json found, and analysis one result per file)
    pmVersion,  \* pipeline: version the package manager reports per package
    nmVersion,  \* pipeline: version in node_modules/<pkg>/package.json
    lookups,    \* pipeline: packages getInstalledVersion was called for
    evaluated,  \* pipeline: (package, version) pairs handed to isVulnerable
    analysis,   \* pipeline: result of analyzePackageJson before the fix
    minimalFixes, \* pipeline: result of computeMinimalFixes
    analysisAfter \* pipeline: result of analyzePackageJson after the fix

vars == <<op, args, ret, pc, manifestOk, pkgJson, deps, devDeps, pmVersion, nmVersion,
          lookups, evaluated, analysis, minimalFixes, analysisAfter>>

(***************************************************************************)
(* Bounds of the model.                                                    *)
(***************************************************************************)
MaxPart == 1        \* patch numbers of compared versions: 0..MaxPart
MaxSeq == 1         \* rc / canary sequence numbers of compared versions
MaxSeqStr == 11     \* sequence numbers of formatted versions (one and two digits)
MaxPrefix == 2      \* length of the operator run put before a version
MaxCves == 3        \* matched advisories per finding given to the planner

(***************************************************************************)
(* Strings.                                                                *)
(***************************************************************************)
NULL == <<"null">>

\* what a property reads as that the object does not have
UNDEFINED == <<"undefined">>

Truthy(s) == s # NULL /\ s # UNDEFINED /\ s # <<>>

\* values of a JSON document that are truthy and are no strings: a number
\* other than 0, true, and an object or an array, each held as one name
NonStrings == {<<"number">>, <<"true">>, <<"object">>}

\* what JSON.parse returns for the text null
JsonNullPkg == [null |-> TRUE, name |-> UNDEFINED]

\* an object that JSON.parse returns, by the value of its name: a string,
\* null, or undefined for an object without one.  A number, a string and an
\* array that JSON.parse returns have no name and no blocks either.
Pkg(name) == [null |-> FALSE, name |-> name]

\* an exception that leaves a function
Raised == [raised |-> TRUE]

\* the element of a one-element set; Only({e(x) : x \in {v}}) is e with x
\* bound to the value of v, as a const declaration binds it
Only(S) == CHOOSE x \in S : TRUE

Digits == <<"0", "1", "2", "3", "4", "5", "6", "7", "8", "9">>

IsDigit(c) == \E i \in 1..10 : Digits[i] = c

DigitValue(c) == (CHOOSE i \in 1..10 : Digits[i] = c) - 1

IsOperatorChar(c) == c \in {"^", "~", ">", "=", "<"}

Drop(s, n) == SubSeq(s, n + 1, Len(s))

Take(s, n) == SubSeq(s, 1, n)

(***************************************************************************)
(* Characters.  A string is a sequence of UTF-16 code units, as JavaScript *)
(* has it, and every code unit has one name: a printable ASCII character   *)
(* (codes 32..126) other than the grave accent is the one-character string *)
(* of itself, tab, line feed, form feed and carriage return are "\t",      *)
(* "\n", "\f" and "\r", and every other code unit is the six-character     *)
(* string of a backslash, the letter u and its code in four lower-case     *)
(* hexadecimal digits: "\\u000b" is the vertical tab, "\\u0060" the grave  *)
(* accent, "\\u00a0" the no-break space, "\\u212a" the Kelvin sign.  A     *)
(* character outside the basic plane is its two surrogates.                *)
(***************************************************************************)
Escape(n) ==
    LET HexDigits == <<"0", "1", "2", "3", "4", "5", "6", "7",
                       "8", "9", "a", "b", "c", "d", "e", "f">>
    IN  "\\u" \o HexDigits[(n \div 4096) + 1] \o HexDigits[((n \div 256) % 16) + 1]
              \o HexDigits[((n \div 16) % 16) + 1] \o HexDigits[(n % 16) + 1]

\* the names of the code units 32..126
PlainUnits ==
    <<" ", "!", "\"", "#", "$", "%", "&", "'", "(", ")", "*", "+", ",", "-",
      ".", "/", "0", "1", "2", "3", "4", "5", "6", "7", "8", "9", ":", ";",
      "<", "=", ">", "?", "@", "A", "B", "C", "D", "E", "F", "G", "H", "I",
      "J", "K", "L", "M", "N", "O", "P", "Q", "R", "S", "T", "U", "V", "W",
      "X", "Y", "Z", "[", "\\", "]", "^", "_", "\\u0060", "a", "b", "c", "d",
      "e", "f", "g", "h", "i", "j", "k", "l", "m", "n", "o", "p", "q", "r",
      "s", "t", "u", "v", "w", "x", "y", "z", "{", "|", "}", "~">>

\* the name of the code unit n
CodeUnit(n) ==
    IF n \in 32..126 THEN PlainUnits[n - 31]
    ELSE IF n = 9 THEN "\t"
    ELSE IF n = 10 THEN "\n"
    ELSE IF n = 12 THEN "\f"
    ELSE IF n = 13 THEN "\r"
    ELSE Escape(n)

AsciiUnits == {CodeUnit(n) : n \in 0..127}

\* charCodeAt: the code unit a name stands for
CodeOf(c) ==
    IF c \in AsciiUnits THEN CHOOSE n \in 0..127 : CodeUnit(n) = c
    ELSE CHOOSE n \in 128..65535 : CodeUnit(n) = c

\* the code units \s and trim() take for white space: tab, line feed,
\* vertical tab, form feed, carriage return, space, U+00A0, U+1680,
\* U+2000..U+200A, U+2028, U+2029, U+202F, U+205F, U+3000 and U+FEFF
WhiteSpaceCodes ==
    {9, 10, 11, 12, 13, 32, 160, 5760} \cup (8192..8202)
    \cup {8232, 8233, 8239, 8287, 12288, 65279}

WhiteSpace == {CodeUnit(n) : n \in WhiteSpaceCodes}

IsSpace(c) == c \in WhiteSpace

(***************************************************************************)
(* String.prototype.toLowerCase: the string is read as code points (a high *)
(* surrogate followed by a low one is one code point), every code point is *)
(* replaced by its lower-case mapping of the Unicode character database    *)
(* (the tables are those of version 17.0, the version of Node.js 20),      *)
(* and the result is written back as code units.  Two mappings are not     *)
(* one to one: U+0130 gives U+0069 U+0307, and U+03A3 gives U+03C2 when it *)
(* is the last letter of a word (Final_Sigma) and U+03C3 otherwise.        *)
(***************************************************************************)
\* <<first, last, step, delta>>: the code points first, first + step, ...,
\* last have the lower-case mapping code point + delta
LowerRuns ==
    <<<<65, 90, 1, 32>>, <<192, 214, 1, 32>>, <<216, 222, 1, 32>>,
      <<256, 302, 2, 1>>, <<306, 310, 2, 1>>, <<313, 327, 2, 1>>,
      <<330, 374, 2, 1>>, <<376, 376, 1, -121>>, <<377, 381, 2, 1>>,
      <<385, 385, 1, 210>>, <<386, 388, 2, 1>>, <<390, 390, 1, 206>>,
      <<391, 391, 1, 1>>, <<393, 394, 1, 205>>, <<395, 395, 1, 1>>,
      <<398, 398, 1, 79>>, <<399, 399, 1, 202>>, <<400, 400, 1, 203>>,
      <<401, 401, 1, 1>>, <<403, 403, 1, 205>>, <<404, 404, 1, 207>>,
      <<406, 406, 1, 211>>, <<407, 407, 1, 209>>, <<408, 408, 1, 1>>,
      <<412, 412, 1, 211>>, <<413, 413, 1, 213>>, <<415, 415, 1, 214>>,
      <<416, 420, 2, 1>>, <<422, 422, 1, 218>>, <<423, 423, 1, 1>>,
      <<425, 425, 1, 218>>, <<428, 428, 1, 1>>, <<430, 430, 1, 218>>,
      <<431, 431, 1, 1>>, <<433, 434, 1, 217>>, <<435, 437, 2, 1>>,
      <<439, 439, 1, 219>>, <<440, 440, 1, 1>>, <<444, 444, 1, 1>>,
      <<452, 452, 1, 2>>, <<453, 453, 1, 1>>, <<455, 455, 1, 2>>,
      <<456, 456, 1, 1>>, <<458, 458, 1, 2>>, <<459, 475, 2, 1>>,
      <<478, 494, 2, 1>>, <<497, 497, 1, 2>>, <<498, 500, 2, 1>>,
      <<502, 502, 1, -97>>, <<503, 503, 1, -56>>, <<504, 542, 2, 1>>,
      <<544, 544, 1, -130>>, <<546, 562, 2, 1>>, <<570, 570, 1, 10795>>,
      <<571, 571, 1, 1>>, <<573, 573, 1, -163>>, <<574, 574, 1, 10792>>,
      <<577, 577, 1, 1>>, <<579, 579, 1, -195>>, <<580, 580, 1, 69>>,
      <<581, 581, 1, 71>>, <<582, 590, 2, 1>>, <<880, 882, 2, 1>>,
      <<886, 886, 1, 1>>, <<895, 895, 1, 116>>, <<902, 902, 1, 38>>,
      <<904, 906, 1, 37>>, <<908, 908, 1, 64>>, <<910, 911, 1, 63>>,
      <<913, 929, 1, 32>>, <<932, 939, 1, 32>>, <<975, 975, 1, 8>>,
      <<984, 1006, 2, 1>>, <<1012, 1012, 1, -60>>, <<1015, 1015, 1, 1>>,
      <<1017, 1017, 1, -7>>, <<1018, 1018, 1, 1>>, <<1021, 1023, 1, -130>>,
      <<1024, 1039, 1, 80>>, <<1040, 1071, 1, 32>>, <<1120, 1152, 2, 1>>,
      <<1162, 1214, 2, 1>>, <<1216, 1216, 1, 15>>, <<1217, 1229, 2, 1>>,
      <<1232, 1326, 2, 1>>, <<1329, 1366, 1, 48>>, <<4256, 4293, 1, 7264>>,
      <<4295, 4295, 1, 7264>>, <<4301, 4301, 1, 7264>>,
      <<5024, 5103, 1, 38864>>, <<5104, 5109, 1, 8>>, <<7305, 7305, 1, 1>>,
      <<7312, 7354, 1, -3008>>, <<7357, 7359, 1, -3008>>,
      <<7680, 7828, 2, 1>>, <<7838, 7838, 1, -7615>>, <<7840, 7934, 2, 1>>,
      <<7944, 7951, 1, -8>>, <<7960, 7965, 1, -8>>, <<7976, 7983, 1, -8>>,
      <<7992, 7999, 1, -8>>, <<8008, 8013, 1, -8>>, <<8025, 8031, 2, -8>>,
      <<8040, 8047, 1, -8>>, <<8072, 8079, 1, -8>>, <<8088, 8095, 1, -8>>,
      <<8104, 8111, 1, -8>>, <<8120, 8121, 1, -8>>, <<8122, 8123, 1, -74>>,
      <<8124, 8124, 1, -9>>, <<8136, 8139, 1, -86>>, <<8140, 8140, 1, -9>>,
      <<8152, 8153, 1, -8>>, <<8154, 8155, 1, -100>>, <<8168, 8169, 1, -8>>,
      <<8170, 8171, 1, -112>>, <<8172, 8172, 1, -7>>,
      <<8184, 8185, 1, -128>>, <<8186, 8187, 1, -126>>,
      <<8188, 8188, 1, -9>>, <<8486, 8486, 1, -7517>>,
      <<8490, 8490, 1, -8383>>, <<8491, 8491, 1, -8262>>,
      <<8498, 8498, 1, 28>>, <<8544, 8559, 1, 16>>, <<8579, 8579, 1, 1>>,
      <<9398, 9423, 1, 26>>, <<11264, 11311, 1, 48>>, <<11360, 11360, 1, 1>>,
      <<11362, 11362, 1, -10743>>, <<11363, 11363, 1, -3814>>,
      <<11364, 11364, 1, -10727>>, <<11367, 11371, 2, 1>>,
      <<11373, 11373, 1, -10780>>, <<11374, 11374, 1, -10749>>,
      <<11375, 11375, 1, -10783>>, <<11376, 11376, 1, -10782>>,
      <<11378, 11378, 1, 1>>, <<11381, 11381, 1, 1>>,
      <<11390, 11391, 1, -10815>>, <<11392, 11490, 2, 1>>,
      <<11499, 11501, 2, 1>>, <<11506, 11506, 1, 1>>, <<42560, 42604, 2, 1>>,
      <<42624, 42650, 2, 1>>, <<42786, 42798, 2, 1>>, <<42802, 42862, 2, 1>>,
      <<42873, 42875, 2, 1>>, <<42877, 42877, 1, -35332>>,
      <<42878, 42886, 2, 1>>, <<42891, 42891, 1, 1>>,
      <<42893, 42893, 1, -42280>>, <<42896, 42898, 2, 1>>,
      <<42902, 42920, 2, 1>>, <<42922, 42922, 1, -42308>>,
      <<42923, 42923, 1, -42319>>, <<42924, 42924, 1, -42315>>,
      <<42925, 42925, 1, -42305>>, <<42926, 42926, 1, -42308>>,
      <<42928, 42928, 1, -42258>>, <<42929, 42929, 1, -42282>>,
      <<42930, 42930, 1, -42261>>, <<42931, 42931, 1, 928>>,
      <<42932, 42946, 2, 1>>, <<42948, 42948, 1, -48>>,
      <<42949, 42949, 1, -42307>>, <<42950, 42950, 1, -35384>>,
      <<42951, 42953, 2, 1>>, <<42955, 42955, 1, -42343>>,
      <<42956, 42970, 2, 1>>, <<42972, 42972, 1, -42561>>,
      <<42997, 42997, 1, 1>>, <<65313, 65338, 1, 32>>,
      <<66560, 66599, 1, 40>>, <<66736, 66771, 1, 40>>,
      <<66928, 66938, 1, 39>>, <<66940, 66954, 1, 39>>,
      <<66956, 66962, 1, 39>>, <<66964, 66965, 1, 39>>,
      <<68736, 68786, 1, 64>>, <<68944, 68965, 1, 32>>,
      <<71840, 71871, 1, 32>>, <<93760, 93791, 1, 32>>,
      <<93856, 93880, 1, 27>>, <<125184, 125217, 1, 34>>>>

\* <<first, last>>: the cased code points that are not case-ignorable
CasedRanges ==
    <<<<65, 90>>, <<97, 122>>, <<170, 170>>, <<181, 181>>, <<186, 186>>,
      <<192, 214>>, <<216, 246>>, <<248, 442>>, <<444, 447>>, <<452, 659>>,
      <<662, 687>>, <<880, 883>>, <<886, 887>>, <<891, 893>>, <<895, 895>>,
      <<902, 902>>, <<904, 906>>, <<908, 908>>, <<910, 929>>, <<931, 1013>>,
      <<1015, 1153>>, <<1162, 1327>>, <<1329, 1366>>, <<1376, 1416>>,
      <<4256, 4293>>, <<4295, 4295>>, <<4301, 4301>>, <<4304, 4346>>,
      <<4349, 4351>>, <<5024, 5109>>, <<5112, 5117>>, <<7296, 7306>>,
      <<7312, 7354>>, <<7357, 7359>>, <<7424, 7467>>, <<7531, 7543>>,
      <<7545, 7578>>, <<7680, 7957>>, <<7960, 7965>>, <<7968, 8005>>,
      <<8008, 8013>>, <<8016, 8023>>, <<8025, 8025>>, <<8027, 8027>>,
      <<8029, 8029>>, <<8031, 8061>>, <<8064, 8116>>, <<8118, 8124>>,
      <<8126, 8126>>, <<8130, 8132>>, <<8134, 8140>>, <<8144, 8147>>,
      <<8150, 8155>>, <<8160, 8172>>, <<8178, 8180>>, <<8182, 8188>>,
      <<8450, 8450>>, <<8455, 8455>>, <<8458, 8467>>, <<8469, 8469>>,
      <<8473, 8477>>, <<8484, 8484>>, <<8486, 8486>>, <<8488, 8488>>,
      <<8490, 8493>>, <<8495, 8500>>, <<8505, 8505>>, <<8508, 8511>>,
      <<8517, 8521>>, <<8526, 8526>>, <<8544, 8575>>, <<8579, 8580>>,
      <<9398, 9449>>, <<11264, 11387>>, <<11390, 11492>>, <<11499, 11502>>,
      <<11506, 11507>>, <<11520, 11557>>, <<11559, 11559>>, <<11565, 11565>>,
      <<42560, 42605>>, <<42624, 42651>>, <<42786, 42863>>, <<42865, 42887>>,
      <<42891, 42894>>, <<42896, 42972>>, <<42997, 42998>>, <<43002, 43002>>,
      <<43824, 43866>>, <<43872, 43880>>, <<43888, 43967>>, <<64256, 64262>>,
      <<64275, 64279>>, <<65313, 65338>>, <<65345, 65370>>, <<66560, 66639>>,
      <<66736, 66771>>, <<66776, 66811>>, <<66928, 66938>>, <<66940, 66954>>,
      <<66956, 66962>>, <<66964, 66965>>, <<66967, 66977>>, <<66979, 66993>>,
      <<66995, 67001>>, <<67003, 67004>>, <<68736, 68786>>, <<68800, 68850>>,
      <<68944, 68965>>, <<68976, 68997>>, <<71840, 71903>>, <<93760, 93823>>,
      <<93856, 93880>>, <<93883, 93907>>, <<119808, 119892>>,
      <<119894, 119964>>, <<119966, 119967>>, <<119970, 119970>>,
      <<119973, 119974>>, <<119977, 119980>>, <<119982, 119993>>,
      <<119995, 119995>>, <<119997, 120003>>, <<120005, 120069>>,
      <<120071, 120074>>, <<120077, 120084>>, <<120086, 120092>>,
      <<120094, 120121>>, <<120123, 120126>>, <<120128, 120132>>,
      <<120134, 120134>>, <<120138, 120144>>, <<120146, 120485>>,
      <<120488, 120512>>, <<120514, 120538>>, <<120540, 120570>>,
      <<120572, 120596>>, <<120598, 120628>>, <<120630, 120654>>,
      <<120656, 120686>>, <<120688, 120712>>, <<120714, 120744>>,
      <<120746, 120770>>, <<120772, 120779>>, <<122624, 122633>>,
      <<122635, 122654>>, <<122661, 122666>>, <<125184, 125251>>,
      <<127280, 127305>>, <<127312, 127337>>, <<127344, 127369>>>>

\* <<first, last>>: the case-ignorable code points
CaseIgnorableRanges ==
    <<<<39, 39>>, <<46, 46>>, <<58, 58>>, <<94, 94>>, <<96, 96>>,
      <<168, 168>>, <<173, 173>>, <<175, 175>>, <<180, 180>>, <<183, 184>>,
      <<688, 879>>, <<884, 885>>, <<890, 890>>, <<900, 901>>, <<903, 903>>,
      <<1155, 1161>>, <<1369, 1369>>, <<1375, 1375>>, <<1425, 1469>>,
      <<1471, 1471>>, <<1473, 1474>>, <<1476, 1477>>, <<1479, 1479>>,
      <<1524, 1524>>, <<1536, 1541>>, <<1552, 1562>>, <<1564, 1564>>,
      <<1600, 1600>>, <<1611, 1631>>, <<1648, 1648>>, <<1750, 1757>>,
      <<1759, 1768>>, <<1770, 1773>>, <<1807, 1807>>, <<1809, 1809>>,
      <<1840, 1866>>, <<1958, 1968>>, <<2027, 2037>>, <<2042, 2042>>,
      <<2045, 2045>>, <<2070, 2093>>, <<2137, 2139>>, <<2184, 2184>>,
      <<2192, 2193>>, <<2199, 2207>>, <<2249, 2306>>, <<2362, 2362>>,
      <<2364, 2364>>, <<2369, 2376>>, <<2381, 2381>>, <<2385, 2391>>,
      <<2402, 2403>>, <<2417, 2417>>, <<2433, 2433>>, <<2492, 2492>>,
      <<2497, 2500>>, <<2509, 2509>>, <<2530, 2531>>, <<2558, 2558>>,
      <<2561, 2562>>, <<2620, 2620>>, <<2625, 2626>>, <<2631, 2632>>,
      <<2635, 2637>>, <<2641, 2641>>, <<2672, 2673>>, <<2677, 2677>>,
      <<2689, 2690>>, <<2748, 2748>>, <<2753, 2757>>, <<2759, 2760>>,
      <<2765, 2765>>, <<2786, 2787>>, <<2810, 2815>>, <<2817, 2817>>,
      <<2876, 2876>>, <<2879, 2879>>, <<2881, 2884>>, <<2893, 2893>>,
      <<2901, 2902>>, <<2914, 2915>>, <<2946, 2946>>, <<3008, 3008>>,
      <<3021, 3021>>, <<3072, 3072>>, <<3076, 3076>>, <<3132, 3132>>,
      <<3134, 3136>>, <<3142, 3144>>, <<3146, 3149>>, <<3157, 3158>>,
      <<3170, 3171>>, <<3201, 3201>>, <<3260, 3260>>, <<3263, 3263>>,
      <<3270, 3270>>, <<3276, 3277>>, <<3298, 3299>>, <<3328, 3329>>,
      <<3387, 3388>>, <<3393, 3396>>, <<3405, 3405>>, <<3426, 3427>>,
      <<3457, 3457>>, <<3530, 3530>>, <<3538, 3540>>, <<3542, 3542>>,
      <<3633, 3633>>, <<3636, 3642>>, <<3654, 3662>>, <<3761, 3761>>,
      <<3764, 3772>>, <<3782, 3782>>, <<3784, 3790>>, <<3864, 3865>>,
      <<3893, 3893>>, <<3895, 3895>>, <<3897, 3897>>, <<3953, 3966>>,
      <<3968, 3972>>, <<3974, 3975>>, <<3981, 3991>>, <<3993, 4028>>,
      <<4038, 4038>>, <<4141, 4144>>, <<4146, 4151>>, <<4153, 4154>>,
      <<4157, 4158>>, <<4184, 4185>>, <<4190, 4192>>, <<4209, 4212>>,
      <<4226, 4226>>, <<4229, 4230>>, <<4237, 4237>>, <<4253, 4253>>,
      <<4348, 4348>>, <<4957, 4959>>, <<5906, 5908>>, <<5938, 5939>>,
      <<5970, 5971>>, <<6002, 6003>>, <<6068, 6069>>, <<6071, 6077>>,
      <<6086, 6086>>, <<6089, 6099>>, <<6103, 6103>>, <<6109, 6109>>,
      <<6155, 6159>>, <<6211, 6211>>, <<6277, 6278>>, <<6313, 6313>>,
      <<6432, 6434>>, <<6439, 6440>>, <<6450, 6450>>, <<6457, 6459>>,
      <<6679, 6680>>, <<6683, 6683>>, <<6742, 6742>>, <<6744, 6750>>,
      <<6752, 6752>>, <<6754, 6754>>, <<6757, 6764>>, <<6771, 6780>>,
      <<6783, 6783>>, <<6823, 6823>>, <<6832, 6877>>, <<6880, 6891>>,
      <<6912, 6915>>, <<6964, 6964>>, <<6966, 6970>>, <<6972, 6972>>,
      <<6978, 6978>>, <<7019, 7027>>, <<7040, 7041>>, <<7074, 7077>>,
      <<7080, 7081>>, <<7083, 7085>>, <<7142, 7142>>, <<7144, 7145>>,
      <<7149, 7149>>, <<7151, 7153>>, <<7212, 7219>>, <<7222, 7223>>,
      <<7288, 7293>>, <<7376, 7378>>, <<7380, 7392>>, <<7394, 7400>>,
      <<7405, 7405>>, <<7412, 7412>>, <<7416, 7417>>, <<7468, 7530>>,
      <<7544, 7544>>, <<7579, 7679>>, <<8125, 8125>>, <<8127, 8129>>,
      <<8141, 8143>>, <<8157, 8159>>, <<8173, 8175>>, <<8189, 8190>>,
      <<8203, 8207>>, <<8216, 8217>>, <<8228, 8228>>, <<8231, 8231>>,
      <<8234, 8238>>, <<8288, 8292>>, <<8294, 8303>>, <<8305, 8305>>,
      <<8319, 8319>>, <<8336, 8348>>, <<8400, 8432>>, <<11388, 11389>>,
      <<11503, 11505>>, <<11631, 11631>>, <<11647, 11647>>, <<11744, 11775>>,
      <<11823, 11823>>, <<12293, 12293>>, <<12330, 12333>>, <<12337, 12341>>,
      <<12347, 12347>>, <<12441, 12446>>, <<12540, 12542>>, <<40981, 40981>>,
      <<42232, 42237>>, <<42508, 42508>>, <<42607, 42610>>, <<42612, 42621>>,
      <<42623, 42623>>, <<42652, 42655>>, <<42736, 42737>>, <<42752, 42785>>,
      <<42864, 42864>>, <<42888, 42890>>, <<42993, 42996>>, <<43000, 43001>>,
      <<43010, 43010>>, <<43014, 43014>>, <<43019, 43019>>, <<43045, 43046>>,
      <<43052, 43052>>, <<43204, 43205>>, <<43232, 43249>>, <<43263, 43263>>,
      <<43302, 43309>>, <<43335, 43345>>, <<43392, 43394>>, <<43443, 43443>>,
      <<43446, 43449>>, <<43452, 43453>>, <<43471, 43471>>, <<43493, 43494>>,
      <<43561, 43566>>, <<43569, 43570>>, <<43573, 43574>>, <<43587, 43587>>,
      <<43596, 43596>>, <<43632, 43632>>, <<43644, 43644>>, <<43696, 43696>>,
      <<43698, 43700>>, <<43703, 43704>>, <<43710, 43711>>, <<43713, 43713>>,
      <<43741, 43741>>, <<43756, 43757>>, <<43763, 43764>>, <<43766, 43766>>,
      <<43867, 43871>>, <<43881, 43883>>, <<44005, 44005>>, <<44008, 44008>>,
      <<44013, 44013>>, <<64286, 64286>>, <<64434, 64450>>, <<65024, 65039>>,
      <<65043, 65043>>, <<65056, 65071>>, <<65106, 65106>>, <<65109, 65109>>,
      <<65279, 65279>>, <<65287, 65287>>, <<65294, 65294>>, <<65306, 65306>>,
      <<65342, 65342>>, <<65344, 65344>>, <<65392, 65392>>, <<65438, 65439>>,
      <<65507, 65507>>, <<65529, 65531>>, <<66045, 66045>>, <<66272, 66272>>,
      <<66422, 66426>>, <<67456, 67461>>, <<67463, 67504>>, <<67506, 67514>>,
      <<68097, 68099>>, <<68101, 68102>>, <<68108, 68111>>, <<68152, 68154>>,
      <<68159, 68159>>, <<68325, 68326>>, <<68900, 68903>>, <<68942, 68942>>,
      <<68969, 68973>>, <<68975, 68975>>, <<69291, 69292>>, <<69317, 69317>>,
      <<69370, 69375>>, <<69446, 69456>>, <<69506, 69509>>, <<69633, 69633>>,
      <<69688, 69702>>, <<69744, 69744>>, <<69747, 69748>>, <<69759, 69761>>,
      <<69811, 69814>>, <<69817, 69818>>, <<69821, 69821>>, <<69826, 69826>>,
      <<69837, 69837>>, <<69888, 69890>>, <<69927, 69931>>, <<69933, 69940>>,
      <<70003, 70003>>, <<70016, 70017>>, <<70070, 70078>>, <<70089, 70092>>,
      <<70095, 70095>>, <<70191, 70193>>, <<70196, 70196>>, <<70198, 70199>>,
      <<70206, 70206>>, <<70209, 70209>>, <<70367, 70367>>, <<70371, 70378>>,
      <<70400, 70401>>, <<70459, 70460>>, <<70464, 70464>>, <<70502, 70508>>,
      <<70512, 70516>>, <<70587, 70592>>, <<70606, 70606>>, <<70608, 70608>>,
      <<70610, 70610>>, <<70625, 70626>>, <<70712, 70719>>, <<70722, 70724>>,
      <<70726, 70726>>, <<70750, 70750>>, <<70835, 70840>>, <<70842, 70842>>,
      <<70847, 70848>>, <<70850, 70851>>, <<71090, 71093>>, <<71100, 71101>>,
      <<71103, 71104>>, <<71132, 71133>>, <<71219, 71226>>, <<71229, 71229>>,
      <<71231, 71232>>, <<71339, 71339>>, <<71341, 71341>>, <<71344, 71349>>,
      <<71351, 71351>>, <<71453, 71453>>, <<71455, 71455>>, <<71458, 71461>>,
      <<71463, 71467>>, <<71727, 71735>>, <<71737, 71738>>, <<71995, 71996>>,
      <<71998, 71998>>, <<72003, 72003>>, <<72148, 72151>>, <<72154, 72155>>,
      <<72160, 72160>>, <<72193, 72202>>, <<72243, 72248>>, <<72251, 72254>>,
      <<72263, 72263>>, <<72273, 72278>>, <<72281, 72283>>, <<72330, 72342>>,
      <<72344, 72345>>, <<72544, 72544>>, <<72546, 72548>>, <<72550, 72550>>,
      <<72752, 72758>>, <<72760, 72765>>, <<72767, 72767>>, <<72850, 72871>>,
      <<72874, 72880>>, <<72882, 72883>>, <<72885, 72886>>, <<73009, 73014>>,
      <<73018, 73018>>, <<73020, 73021>>, <<73023, 73029>>, <<73031, 73031>>,
      <<73104, 73105>>, <<73109, 73109>>, <<73111, 73111>>, <<73177, 73177>>,
      <<73459, 73460>>, <<73472, 73473>>, <<73526, 73530>>, <<73536, 73536>>,
      <<73538, 73538>>, <<73562, 73562>>, <<78896, 78912>>, <<78919, 78933>>,
      <<90398, 90409>>, <<90413, 90415>>, <<92912, 92916>>, <<92976, 92982>>,
      <<92992, 92995>>, <<93504, 93506>>, <<93547, 93548>>, <<94031, 94031>>,
      <<94095, 94111>>, <<94176, 94177>>, <<94179, 94180>>, <<94194, 94195>>,
      <<110576, 110579>>, <<110581, 110587>>, <<110589, 110590>>,
      <<113821, 113822>>, <<113824, 113827>>, <<118528, 118573>>,
      <<118576, 118598>>, <<119143, 119145>>, <<119155, 119170>>,
      <<119173, 119179>>, <<119210, 119213>>, <<119362, 119364>>,
      <<121344, 121398>>, <<121403, 121452>>, <<121461, 121461>>,
      <<121476, 121476>>, <<121499, 121503>>, <<121505, 121519>>,
      <<122880, 122886>>, <<122888, 122904>>, <<122907, 122913>>,
      <<122915, 122916>>, <<122918, 122922>>, <<122928, 122989>>,
      <<123023, 123023>>, <<123184, 123197>>, <<123566, 123566>>,
      <<123628, 123631>>, <<124139, 124143>>, <<124398, 124399>>,
      <<124643, 124643>>, <<124646, 124646>>, <<124654, 124655>>,
      <<124661, 124661>>, <<124671, 124671>>, <<125136, 125142>>,
      <<125252, 125259>>, <<127995, 127999>>, <<917505, 917505>>,
      <<917536, 917631>>, <<917760, 917999>>>>

InRanges(p, ranges) ==
    \E k \in 1..Len(ranges) : ranges[k][1] <= p /\ p <= ranges[k][2]

RECURSIVE CodePoints(_)
\* the code points of a sequence of code units: a high surrogate
\* (0xD800..0xDBFF) followed by a low one (0xDC00..0xDFFF) is one code point
CodePoints(units) ==
    IF units = <<>> THEN <<>>
    ELSE IF Len(units) >= 2 /\ units[1] \in 55296..56319 /\ units[2] \in 56320..57343
         THEN <<65536 + (units[1] - 55296) * 1024 + (units[2] - 56320)>>
              \o CodePoints(Drop(units, 2))
         ELSE <<units[1]>> \o CodePoints(Tail(units))

RECURSIVE CodeUnitsOf(_)
\* the code units of a sequence of code points, by their names
CodeUnitsOf(points) ==
    IF points = <<>> THEN <<>>
    ELSE IF points[1] >= 65536
         THEN <<CodeUnit(55296 + ((points[1] - 65536) \div 1024)),
                CodeUnit(56320 + ((points[1] - 65536) % 1024))>>
              \o CodeUnitsOf(Tail(points))
         ELSE <<CodeUnit(points[1])>> \o CodeUnitsOf(Tail(points))

\* points[i] is preceded by a cased letter and any number of case-ignorable
\* characters, and is not followed by any number of case-ignorable
\* characters and a cased letter
FinalSigma(points, i) ==
    /\ \E j \in 1..(i - 1) :
          /\ InRanges(points[j], CasedRanges)
          /\ \A k \in (j + 1)..(i - 1) : InRanges(points[k], CaseIgnorableRanges)
    /\ ~\E j \in (i + 1)..Len(points) :
          /\ InRanges(points[j], CasedRanges)
          /\ \A k \in (i + 1)..(j - 1) : InRanges(points[k], CaseIgnorableRanges)

\* the lower-case mapping of the code point points[i]
LowerPoint(points, i) ==
    Only({IF p = 304 THEN <<105, 775>>
          ELSE IF p = 931 THEN (IF FinalSigma(points, i) THEN <<962>> ELSE <<963>>)
          ELSE IF \E k \in 1..Len(LowerRuns) :
                     /\ LowerRuns[k][1] <= p /\ p <= LowerRuns[k][2]
                     /\ (p - LowerRuns[k][1]) % LowerRuns[k][3] = 0
               THEN <<p + LowerRuns[(CHOOSE k \in 1..Len(LowerRuns) :
                                        /\ LowerRuns[k][1] <= p /\ p <= LowerRuns[k][2]
                                        /\ (p - LowerRuns[k][1]) % LowerRuns[k][3] = 0)][4]>>
          ELSE <<p>> :
          p \in {points[i]}})

RECURSIVE LowerPoints(_, _)
\* the lower-case mappings of points[i], points[i + 1], ... in a row
LowerPoints(points, i) ==
    IF i > Len(points) THEN <<>>
    ELSE LowerPoint(points, i) \o LowerPoints(points, i + 1)

\* a string of ASCII code units is lowered unit by unit, A..Z being the
\* only ASCII code points with a lower-case mapping (the first run of
\* LowerRuns); any other string goes through its code points
toLowerCase(s) ==
    IF \A i \in 1..Len(s) : s[i] \in AsciiUnits
    THEN [i \in 1..Len(s) |->
            IF \E n \in 65..90 : CodeUnit(n) = s[i]
            THEN CodeUnit((CHOOSE n \in 65..90 : CodeUnit(n) = s[i]) + 32)
            ELSE s[i]]
    ELSE CodeUnitsOf(LowerPoints(CodePoints([i \in 1..Len(s) |-> CodeOf(s[i])]), 1))

startsWith(s, p) == Len(s) >= Len(p) /\ Take(s, Len(p)) = p

includes(s, p) ==
    \E i \in 0..(Len(s) - Len(p)) : SubSeq(s, i + 1, i + Len(p)) = p

(***************************************************************************)
(* path (posix): dirname, basename, normalize and join, on strings.        *)
(***************************************************************************)
\* the largest element of a set of integers that is not empty
Maximum(S) == CHOOSE i \in S : \A j \in S : j <= i

\* path.dirname(path): the text before the last "/" that has a character
\* other than "/" after it; the first character is never taken for it
dirname(path) ==
    IF path = <<>> THEN <<".">>
    ELSE Only({IF ends = {} THEN (IF path[1] = "/" THEN <<"/">> ELSE <<".">>)
               ELSE IF path[1] = "/" /\ Maximum(ends) = 2 THEN <<"/", "/">>
               ELSE Take(path, Maximum(ends) - 1) :
               ends \in {{i \in 2..Len(path) :
                            /\ path[i] = "/"
                            /\ \E j \in (i + 1)..Len(path) : path[j] # "/"}}})

\* path.basename(path): from after the last "/" before the last character
\* other than "/", to that character
basename(path) ==
    Only({IF named = {} THEN <<>>
          ELSE Only({SubSeq(path,
                            IF slashes = {} THEN 1 ELSE Maximum(slashes) + 1,
                            Maximum(named)) :
                     slashes \in {{i \in 1..Maximum(named) : path[i] = "/"}}}) :
          named \in {{i \in 1..Len(path) : path[i] # "/"}}})

RECURSIVE Segments(_)
\* path.split("/")
Segments(path) ==
    IF \A i \in 1..Len(path) : path[i] # "/" THEN <<path>>
    ELSE Only({<<Take(path, i - 1)>> \o Segments(Drop(path, i)) :
               i \in {CHOOSE i \in 1..Len(path) :
                        path[i] = "/" /\ \A j \in 1..(i - 1) : path[j] # "/"}})

RECURSIVE normalizeString(_, _, _)
\* the segments kept of those given, res being the ones kept so far: an
\* empty segment and "." are dropped, ".." takes back the segment before it
\* and is kept where there is none to take back and the path is relative
normalizeString(segments, res, allowAboveRoot) ==
    IF segments = <<>> THEN res
    ELSE normalizeString(Tail(segments),
             IF Head(segments) = <<>> \/ Head(segments) = <<".">> THEN res
             ELSE IF Head(segments) = <<".", ".">>
                  THEN (IF res # <<>> /\ res[Len(res)] # <<".", ".">>
                        THEN Take(res, Len(res) - 1)
                        ELSE IF allowAboveRoot THEN Append(res, Head(segments))
                        ELSE res)
             ELSE Append(res, Head(segments)),
             allowAboveRoot)

RECURSIVE JoinSegments(_)
\* segments.join("/")
JoinSegments(segments) ==
    IF segments = <<>> THEN <<>>
    ELSE IF Len(segments) = 1 THEN segments[1]
    ELSE segments[1] \o <<"/">> \o JoinSegments(Tail(segments))

\* path.normalize(path)
normalize(path) ==
    IF path = <<>> THEN <<".">>
    ELSE Only({IF kept = <<>>
               THEN (IF path[1] = "/" THEN <<"/">>
                     ELSE IF path[Len(path)] = "/" THEN <<".", "/">>
                     ELSE <<".">>)
               ELSE (IF path[1] = "/" THEN <<"/">> ELSE <<>>)
                    \o kept
                    \o (IF path[Len(path)] = "/" THEN <<"/">> ELSE <<>>) :
               kept \in {JoinSegments(normalizeString(Segments(path), <<>>,
                                                      path[1] # "/"))}})

\* path.join(dir, name): the arguments that are not empty, joined by "/"
\* and normalized
join(dir, name) ==
    IF dir = <<>> /\ name = <<>> THEN <<".">>
    ELSE IF dir = <<>> THEN normalize(name)
    ELSE IF name = <<>> THEN normalize(dir)
    ELSE normalize(dir \o <<"/">> \o name)

\* c is an operator character (k = 0) or a digit (k = 1) or a space (k = 2)
InClass(c, k) ==
    \/ (k = 0 /\ IsOperatorChar(c))
    \/ (k = 1 /\ IsDigit(c))
    \/ (k = 2 /\ IsSpace(c))

\* number of leading characters of s that are operator characters (k = 0)
\* or digits (k = 1) or spaces (k = 2)
LeadingRun(s, k) ==
    (CHOOSE i \in 1..(Len(s) + 1) :
        /\ i > Len(s) \/ ~InClass(s[i], k)
        /\ \A j \in 1..(i - 1) : InClass(s[j], k)) - 1

\* number of spaces s ends with
TrailingSpaces(s) ==
    Len(s) - (CHOOSE i \in 0..Len(s) :
                 /\ i = 0 \/ ~IsSpace(s[i])
                 /\ \A j \in (i + 1)..Len(s) : IsSpace(s[j]))

trim(s) ==
    Only({Take(t, Len(t) - TrailingSpaces(t)) : t \in {Drop(s, LeadingRun(s, 2))}})

(***************************************************************************)
(* Numbers.  The numbers of the code are IEEE 754 doubles.  A number that  *)
(* parseInt returns, and a difference of two such numbers, is held as its  *)
(* sign (-1, 0 or 1) followed by the binary digits of its magnitude, the   *)
(* most significant first: 0 is <<0>>, 5 is <<1, 1, 0, 1>> and -2 is       *)
(* <<-1, 1, 0>>.  A double keeps Precision significant binary digits, so   *)
(* an integer above 2^53 is rounded to the nearest double, to the even one *)
(* when two are equally near.  Infinity is held as 2^MaxExponent, which is *)
(* above every finite double.  NaN, which Infinity - Infinity is, is held  *)
(* as <<0, 0>>: its sign is 0, for NaN < 0 and NaN > 0 are false, and it   *)
(* is not the number 0, for NaN === 0 is false.                            *)
(***************************************************************************)
Precision == 53

MaxExponent == 1024

\* the decimal digits of the largest double, which is below 2^MaxExponent:
\* an integer of more digits is Infinity as a double
MaxDigits == 309

RECURSIVE Bits(_)
\* the binary digits of the natural number n, none for 0
Bits(n) == IF n = 0 THEN <<>> ELSE Append(Bits(n \div 2), n % 2)

\* the numbers with the magnitude given in binary digits
Positive(bits) == IF bits = <<>> THEN <<0>> ELSE <<1>> \o bits

Negative(bits) == IF bits = <<>> THEN <<0>> ELSE <<-1>> \o bits

\* the numbers 0..255, computed once
SmallNumbers == [n \in 0..255 |-> Positive(Bits(n))]

\* the number written n in the code, for an integer literal
Num(n) ==
    IF n < 0 THEN Negative(Bits(-n))
    ELSE IF n <= 255 THEN SmallNumbers[n]
    ELSE Positive(Bits(n))

Zero == <<0>>

Sign(x) == x[1]

Magnitude(x) == Drop(x, 1)

InfinityBits == <<1>> \o [i \in 1..MaxExponent |-> 0]

Infinity == <<1>> \o InfinityBits

NaN == <<0, 0>>

RECURSIVE Increment(_)
\* bits + 1
Increment(bits) ==
    IF bits = <<>> THEN <<1>>
    ELSE IF bits[Len(bits)] = 0 THEN Append(Take(bits, Len(bits) - 1), 1)
    ELSE Append(Increment(Take(bits, Len(bits) - 1)), 0)

\* the double nearest to the integer with the binary digits given: the
\* first Precision digits, one more when the digits dropped are above one
\* half of the last place kept, or are one half and the last digit kept is 1
RoundToDouble(bits) ==
    IF Len(bits) <= Precision THEN bits
    ELSE LET kept == Take(bits, Precision)
             rest == Drop(bits, Precision)
             up == rest[1] = 1
                   /\ (kept[Precision] = 1 \/ \E i \in 2..Len(rest) : rest[i] = 1)
             rounded == (IF up THEN Increment(kept) ELSE kept)
                        \o [i \in 1..Len(rest) |-> 0]
         IN  IF Len(rounded) > MaxExponent THEN InfinityBits ELSE rounded

\* the decimal digits of half the integer with the decimal digits d
Half(d) ==
    [i \in 1..Len(d) |->
        ((IF i > 1 THEN 10 * (d[i - 1] % 2) ELSE 0) + d[i]) \div 2]

\* the decimal digits of the integer with the decimal digits d divided by
\* 256, the remainder dropped
Half8(d) == Half(Half(Half(Half(Half(Half(Half(Half(d))))))))

\* d without the zeros it starts with
Significant(d) ==
    IF \A i \in 1..Len(d) : d[i] = 0 THEN <<>>
    ELSE Drop(d, (CHOOSE i \in 1..Len(d) :
                     d[i] # 0 /\ \A j \in 1..(i - 1) : d[j] = 0) - 1)

RECURSIVE Value(_)
\* the integer with the decimal digits d, for up to nine digits
Value(d) ==
    IF d = <<>> THEN 0 ELSE 10 * Value(Take(d, Len(d) - 1)) + d[Len(d)]

\* the eight binary digits of n \in 0..255
Byte(n) ==
    <<(n \div 128) % 2, (n \div 64) % 2, (n \div 32) % 2, (n \div 16) % 2,
      (n \div 8) % 2, (n \div 4) % 2, (n \div 2) % 2, n % 2>>

\* the last eight binary digits of the integer with the decimal digits d,
\* which its last eight decimal digits give, 10^8 being a multiple of 2^8
LowByte(d) == Byte(Value(SubSeq(d, Len(d) - 7, Len(d))) % 256)

RECURSIVE BitsOfDigits(_)
\* the binary digits of the integer with the decimal digits d, 24 at a
\* time; the first ones may be zeros
BitsOfDigits(d) ==
    IF Len(d) <= 9 THEN Bits(Value(d))
    ELSE LET a == Half8(d)
             b == Half8(a)
         IN  BitsOfDigits(Significant(Half8(b)))
             \o LowByte(b) \o LowByte(a) \o LowByte(d)

\* the integer with the decimal digits ds, for up to nine digits
DecimalValue(ds) == Value([i \in 1..Len(ds) |-> DigitValue(ds[i])])

\* bits without the zeros it starts with
StripZeros(bits) ==
    IF \A i \in 1..Len(bits) : bits[i] = 0 THEN <<>>
    ELSE Drop(bits, (CHOOSE i \in 1..Len(bits) :
                        bits[i] = 1 /\ \A j \in 1..(i - 1) : bits[j] = 0) - 1)

\* the double nearest to the integer with the decimal digits ds
NearestDouble(ds) ==
    Positive(RoundToDouble(StripZeros(BitsOfDigits(
        Significant([i \in 1..Len(ds) |-> DigitValue(ds[i])])))))

\* parseInt(ds, 10) for a run of decimal digits ds, as the captures of
\* (\d+) are: the double nearest to the integer written.  An integer of up
\* to nine digits is a double, and is computed directly; one of more than
\* MaxDigits digits, the zeros it starts with left out, is Infinity.
parseInt(ds) ==
    IF Len(ds) <= 9 THEN Num(DecimalValue(ds))
    ELSE IF Len(ds) > MaxDigits
            /\ \E i \in 1..(Len(ds) - MaxDigits) : ds[i] # "0"
         THEN Infinity
    ELSE NearestDouble(ds)

\* a < b for magnitudes in binary digits
LessBits(a, b) ==
    \/ Len(a) < Len(b)
    \/ /\ Len(a) = Len(b)
       /\ \E i \in 1..Len(a) : a[i] < b[i] /\ \A j \in 1..(i - 1) : a[j] = b[j]

\* x < y, which is false when x or y is NaN
Less(x, y) ==
    IF x = NaN \/ y = NaN THEN FALSE
    ELSE IF Sign(x) # Sign(y) THEN Sign(x) < Sign(y)
    ELSE IF Sign(x) = 1 THEN LessBits(Magnitude(x), Magnitude(y))
    ELSE IF Sign(x) = -1 THEN LessBits(Magnitude(y), Magnitude(x))
    ELSE FALSE

\* the binary digits of a - b, for a >= b of one length: a place borrows
\* from the one before it when, of the places after it, the first where a
\* and b differ has the lower digit in a
SubtractDigits(a, b) ==
    [i \in 1..Len(a) |->
        (a[i] - b[i] + 2
         - (IF \E j \in (i + 1)..Len(a) :
                  a[j] < b[j] /\ \A k \in (i + 1)..(j - 1) : a[k] = b[k]
            THEN 1 ELSE 0)) % 2]

\* a - b for magnitudes a >= b
Difference(a, b) ==
    StripZeros(SubtractDigits(a, [i \in 1..(Len(a) - Len(b)) |-> 0] \o b))

\* x - y for doubles x >= 0 and y >= 0, rounded as the subtraction of the
\* code is; Infinity - Infinity is NaN
Minus(x, y) ==
    IF x = Infinity /\ y = Infinity THEN NaN
    ELSE IF x = y THEN Zero
    ELSE IF Magnitude(x) = InfinityBits THEN x
    ELSE IF Magnitude(y) = InfinityBits THEN Negative(InfinityBits)
    ELSE IF Less(x, y)
         THEN Negative(RoundToDouble(Difference(Magnitude(y), Magnitude(x))))
    ELSE Positive(RoundToDouble(Difference(Magnitude(x), Magnitude(y))))

RECURSIVE NumStr(_)
\* the decimal numeral of the natural number n
NumStr(n) ==
    IF n < 10 THEN <<Digits[n + 1]>>
    ELSE NumStr(n \div 10) \o <<Digits[(n % 10) + 1]>>

CanaryTag == <<"-", "c", "a", "n", "a", "r", "y", ".">>

RcTag == <<"-", "r", "c", ".">>

StableStr(major, minor, patch) ==
    NumStr(major) \o <<".">> \o NumStr(minor) \o <<".">> \o NumStr(patch)

CanaryStr(major, minor, patch, n) ==
    StableStr(major, minor, patch) \o CanaryTag \o NumStr(n)

RcStr(major, minor, patch, n) ==
    StableStr(major, minor, patch) \o RcTag \o NumStr(n)

(***************************************************************************)
(* lib/utils/version.js                                                    *)
(***************************************************************************)
NullVersion == [null |-> TRUE]

\* the same without trim()
cleanVersionNoTrim(version) == Drop(version, LeadingRun(version, 0))

\* the TypeError a property read on null or undefined raises
TypeError == <<"TypeError">>

\* version.replace(/^[\^~>=<]+/, '').trim(); version.replace raises on null
\* and on undefined
cleanVersion(version) ==
    IF version \in {NULL, UNDEFINED} THEN TypeError
    ELSE trim(Drop(version, LeadingRun(version, 0)))

RECURSIVE Numbers(_, _)
\* (\d+) repeated k times with \. in between, at the start of s: the
\* captured groups followed by the rest of s, or <<>> when s does not start so
Numbers(s, k) ==
    Only({IF n = 0 THEN <<>>
          ELSE IF k = 1 THEN <<Take(s, n), Drop(s, n)>>
          ELSE IF Len(s) > n /\ s[n + 1] = "."
               THEN Only({IF r = <<>> THEN <<>> ELSE <<Take(s, n)>> \o r :
                          r \in {Numbers(Drop(s, n + 1), k - 1)}})
          ELSE <<>> :
          n \in {LeadingRun(s, 1)}})

\* ^(\d+)\.(\d+)\.(\d+) followed by tag, (\d+) and the end of the string;
\* tag = <<>> is ^(\d+)\.(\d+)\.(\d+)$.  The result is the sequence of the
\* captured groups, or <<>> when the string does not match.
MatchVersion(s, tag) ==
    Only({IF m = <<>> THEN <<>>
          ELSE IF tag = <<>> THEN (IF m[4] = <<>> THEN Take(m, 3) ELSE <<>>)
          ELSE IF startsWith(m[4], tag)
                  /\ Len(m[4]) > Len(tag)
                  /\ \A i \in (Len(tag) + 1)..Len(m[4]) : IsDigit(m[4][i])
               THEN Append(Take(m, 3), Drop(m[4], Len(tag)))
          ELSE <<>> :
          m \in {Numbers(s, 3)}})

\* the object built from the match that succeeds, or null
VersionOfMatches(cleaned, canaryMatch, rcMatch, stableMatch) ==
    IF canaryMatch # <<>> THEN
      [null |-> FALSE,
       major |-> parseInt(canaryMatch[1]),
       minor |-> parseInt(canaryMatch[2]),
       patch |-> parseInt(canaryMatch[3]),
       canary |-> parseInt(canaryMatch[4]),
       isCanary |-> TRUE, isRC |-> FALSE, isStable |-> FALSE,
       raw |-> cleaned]
    ELSE IF rcMatch # <<>> THEN
      [null |-> FALSE,
       major |-> parseInt(rcMatch[1]),
       minor |-> parseInt(rcMatch[2]),
       patch |-> parseInt(rcMatch[3]),
       rc |-> parseInt(rcMatch[4]),
       isCanary |-> FALSE, isRC |-> TRUE, isStable |-> FALSE,
       raw |-> cleaned]
    ELSE IF stableMatch # <<>> THEN
      [null |-> FALSE,
       major |-> parseInt(stableMatch[1]),
       minor |-> parseInt(stableMatch[2]),
       patch |-> parseInt(stableMatch[3]),
       isCanary |-> FALSE, isRC |-> FALSE, isStable |-> TRUE,
       raw |-> cleaned]
    ELSE NullVersion

\* the three matches of the cleaned string
ParseCleaned(cleaned) ==
    Only({VersionOfMatches(cleaned, canaryMatch, rcMatch, stableMatch) :
            canaryMatch \in {MatchVersion(cleaned, CanaryTag)},
            rcMatch \in {MatchVersion(cleaned, RcTag)},
            stableMatch \in {MatchVersion(cleaned, <<>>)}})

parseVersion(version) ==
    IF ~Truthy(version) THEN NullVersion
    ELSE Only({ParseCleaned(cleaned) : cleaned \in {cleanVersion(version)}})

getPreReleaseOrder(v) ==
    IF v.isCanary THEN Num(0) ELSE IF v.isRC THEN Num(1) ELSE Num(2)

\* compareVersions on two parsed versions (its arguments when they are not
\* strings)
compareParsed(vA, vB) ==
    IF vA.null \/ vB.null THEN Zero
    ELSE IF vA.major # vB.major THEN Minus(vA.major, vB.major)
    ELSE IF vA.minor # vB.minor THEN Minus(vA.minor, vB.minor)
    ELSE IF vA.patch # vB.patch THEN Minus(vA.patch, vB.patch)
    ELSE IF getPreReleaseOrder(vA) # getPreReleaseOrder(vB)
         THEN Minus(getPreReleaseOrder(vA), getPreReleaseOrder(vB))
    ELSE IF vA.isCanary /\ vB.isCanary THEN Minus(vA.canary, vB.canary)
    ELSE IF vA.isRC /\ vB.isRC THEN Minus(vA.rc, vB.rc)
    ELSE Zero

\* compareVersions on two strings
compareVersions(a, b) ==
    Only({compareParsed(vA, vB) : vA \in {parseVersion(a)}, vB \in {parseVersion(b)}})

\* every specifier parseVersion rejects counted as unparseable
isUnparseableVersionSpecOrInvalid(version) ==
    IF ~Truthy(version) THEN TRUE
    ELSE parseVersion(version) = NullVersion

isUnparseableVersionSpec(version) ==
    IF ~Truthy(version) THEN TRUE
    ELSE \E cleaned \in {toLowerCase(cleanVersion(version))} :
          \/ cleaned \in {<<"l", "a", "t", "e", "s", "t">>,
                          <<"n", "e", "x", "t">>,
                          <<"c", "a", "n", "a", "r", "y">>,
                          <<"*">>, <<"x">>}
          \/ startsWith(cleaned, <<"n", "p", "m", ":">>)
          \/ startsWith(cleaned, <<"c", "a", "t", "a", "l", "o", "g", ":">>)
          \/ startsWith(cleaned, <<"w", "o", "r", "k", "s", "p", "a", "c", "e", ":">>)
          \/ includes(cleaned, <<"/">>)

hasRangeSpecifier(version) ==
    IF ~Truthy(version) THEN FALSE
    ELSE \/ (trim(version) # <<>> /\ IsOperatorChar(Head(trim(version))))
         \/ includes(version, <<" ">>)
         \/ includes(version, <<"|", "|">>)

\* /\d\s+-\s+\d/
HyphenRangeShape(s) ==
    \E i \in 1..Len(s) :
        /\ IsDigit(s[i])
        /\ LET n1 == LeadingRun(Drop(s, i), 2)
               r1 == Drop(s, i + n1)
               n2 == IF r1 # <<>> /\ Head(r1) = "-"
                     THEN LeadingRun(Tail(r1), 2) ELSE 0
               r2 == IF n2 > 0 THEN Drop(Tail(r1), n2) ELSE <<>>
           IN  n1 > 0 /\ n2 > 0 /\ r2 # <<>> /\ IsDigit(Head(r2))

\* version.includes('||')
OrRangeShape(s) == includes(s, <<"|", "|">>)

\* the x of a regular expression with the i flag: x and X and no other
\* code unit
IsX(c) == c \in {"x", "X"}

\* /\d+\.x|\.x\.|x$|\.\*|\*$/i
XRangeShape(s) ==
    \/ \E i \in 1..(Len(s) - 2) : IsDigit(s[i]) /\ s[i + 1] = "." /\ IsX(s[i + 2])
    \/ \E i \in 1..(Len(s) - 2) : s[i] = "." /\ IsX(s[i + 1]) /\ s[i + 2] = "."
    \/ (s # <<>> /\ IsX(s[Len(s)]))
    \/ includes(s, <<".", "*">>)
    \/ (s # <<>> /\ s[Len(s)] = "*")

\* /^<[^=]/.test(version) || /^<=/.test(version)
LessThanShape(s) ==
    \/ (Len(s) >= 2 /\ s[1] = "<" /\ s[2] # "=")
    \/ startsWith(s, <<"<", "=">>)

ReasonNone == "undefined"

\* the less-than test made first
hasUnsupportedRangeLessThanFirst(version) ==
    IF ~Truthy(version) THEN [unsupported |-> FALSE, reason |-> ReasonNone]
    ELSE IF LessThanShape(version)
         THEN [unsupported |-> TRUE, reason |-> "less-than-range"]
    ELSE IF HyphenRangeShape(version)
         THEN [unsupported |-> TRUE, reason |-> "hyphen-range"]
    ELSE IF OrRangeShape(version)
         THEN [unsupported |-> TRUE, reason |-> "or-range"]
    ELSE IF XRangeShape(version)
         THEN [unsupported |-> TRUE, reason |-> "x-range"]
    ELSE [unsupported |-> FALSE, reason |-> ReasonNone]

hasUnsupportedRange(version) ==
    IF ~Truthy(version) THEN [unsupported |-> FALSE, reason |-> ReasonNone]
    ELSE IF HyphenRangeShape(version)
         THEN [unsupported |-> TRUE, reason |-> "hyphen-range"]
    ELSE IF OrRangeShape(version)
         THEN [unsupported |-> TRUE, reason |-> "or-range"]
    ELSE IF XRangeShape(version)
         THEN [unsupported |-> TRUE, reason |-> "x-range"]
    ELSE IF LessThanShape(version)
         THEN [unsupported |-> TRUE, reason |-> "less-than-range"]
    ELSE [unsupported |-> FALSE, reason |-> ReasonNone]

\* version.match(/^([\^~>=<]+)/): every leading operator character is kept
getVersionPrefixAnyOperator(version) ==
    IF ~Truthy(version) THEN <<>>
    ELSE Take(version, LeadingRun(version, 0))

\* version.match(/^([\^~]|>=?)/)
getVersionPrefix(version) ==
    IF ~Truthy(version) THEN <<>>
    ELSE IF Head(version) \in {"^", "~"} THEN <<Head(version)>>
    ELSE IF startsWith(version, <<">", "=">>) THEN <<">", "=">>
    ELSE IF Head(version) = ">" THEN <<">">>
    ELSE <<>>

\* the prefix put back without looking at the shape of the range
applyVersionPrefixAlways(originalVersion, newVersion) ==
    getVersionPrefix(originalVersion) \o newVersion

applyVersionPrefix(originalVersion, newVersion) ==
    IF hasUnsupportedRange(originalVersion).unsupported
    THEN newVersion
    ELSE getVersionPrefix(originalVersion) \o newVersion

(***************************************************************************)
(* Inputs of the version utilities.                                        *)
(***************************************************************************)
RECURSIVE SeqsUpTo(_, _)
\* all sequences over S of length at most n
SeqsUpTo(S, n) ==
    IF n = 0 THEN {<<>>}
    ELSE LET r == SeqsUpTo(S, n - 1)
         IN  r \cup {<<c>> \o s : c \in S, s \in {x \in r : Len(x) = n - 1}}

PrefixChars == {"^", "~", ">", "=", "<", " "}

\* runs of operator characters and spaces, and runs with a tab or a line end
Prefixes ==
    SeqsUpTo(PrefixChars, MaxPrefix)
    \cup {<<"\t">>, <<"\t", "^">>, <<"^", "\t">>, <<">", "\t">>, <<"~", "\n">>}

Suffixes == {<<>>, <<" ">>, <<"\t", "\n">>}

VersionTriples == {<<14, 3, 0>>, <<15, 3, 0>>, <<15, 6, 0>>, <<16, 0, 10>>}

\* well-formed versions as they are written in a manifest
FormattedVersions ==
    {StableStr(t[1], t[2], t[3]) : t \in VersionTriples}
    \cup {CanaryStr(t[1], t[2], t[3], n) : t \in VersionTriples, n \in 0..MaxSeqStr}
    \cup {RcStr(t[1], t[2], t[3], n) : t \in VersionTriples, n \in 0..MaxSeqStr}

\* version bodies that are not of the three forms
OtherBodies ==
    {<<>>,
     <<"1", "5", ".", "3">>,
     <<"1", "5">>,
     <<"1", "5", ".", "3", ".", "0", ".", "1">>,
     <<"1", "5", ".", "x">>,
     <<"1", "5", ".", "3", ".", "x">>,
     <<"1", "5", ".", "*">>,
     <<"x">>,
     <<"*">>,
     <<"X">>,
     <<"1", "5", ".", "X">>,
     <<"1", "4", ".", "x">>,
     <<"l", "a", "t", "e", "s", "t">>,
     <<"n", "e", "x", "t">>,
     <<"c", "a", "n", "a", "r", "y">>,
     <<"L", "a", "t", "e", "s", "t">>,
     <<"1", "5", ".", "3", ".", "0", "-", "b", "e", "t", "a", ".", "1">>,
     <<"1", "5", ".", "3", ".", "0", "-", "c", "a", "n", "a", "r", "y", ".">>,
     <<"1", "5", ".", "3", ".", "0", "-", "c", "a", "n", "a", "r", "y", ".", "5", "x">>,
     <<"1", "5", ".", "3", ".", "0", "-", "r", "c">>,
     <<"v", "1", "5", ".", "3", ".", "0">>,
     <<".", "3", ".", "0">>,
     <<"1", "5", ".", ".", "0">>,
     <<"1", "5", ".", "3", ".", "0", "-", "c", "a", "n", "a", "r", "y", ".", "1", "-", "r", "c", ".", "2">>,
     <<"1", "5", ".", "3", ".", "0", "-", "r", "c", ".", "1", "x">>,
     <<"1", "5", ".", "3", ".", "0", "x">>,
     <<"1", "5", ".", "0", ".", "0", " ", "-", " ", "1", "6", ".", "0", ".", "0">>,
     <<"1", "5", ".", "0", ".", "0", " ", "-", "1", "6", ".", "0", ".", "0">>,
     <<"1", "5", ".", "0", ".", "0", " ", "|", "|", " ", "1", "6", ".", "0", ".", "0">>,
     <<"1", ".", "0", ".", "0", " ", "-", " ", "2", ".", "0", ".", "0", " ", "|", "|", " ", "3", ".", "x">>,
     <<"<", "1", ".", "x", " ", "|", "|", " ", "2", ".", "0", ".", "0">>,
     <<"1", ".", "0", ".", "0", " ", "-", " ", "2", ".", "x">>,
     <<"n", "p", "m", ":", "n", "e", "x", "t", "@", "1", "5", ".", "0", ".", "0">>,
     <<"w", "o", "r", "k", "s", "p", "a", "c", "e", ":", "*">>,
     <<"c", "a", "t", "a", "l", "o", "g", ":">>,
     <<"a", "/", "b">>,
     <<"1", "5", ".", "0", ".", "0", "\t", "-", "\t", "1", "6", ".", "0", ".", "0">>,
     <<"1", "5", ".", "0", ".", "0", " ", "-", "\n", "1", "6", ".", "0", ".", "0">>,
     <<"1", "5", ".", "0", ".", "0", "\t", "|", "|", "1", "6", ".", "0", ".", "0">>,
     <<"C", "A", "N", "A", "R", "Y">>,
     <<"L", "A", "T", "E", "S", "T">>,
     <<"N", "e", "x", "t">>,
     <<"N", "P", "M", ":", "n", "e", "x", "t", "@", "1", "5">>,
     <<"W", "O", "R", "K", "S", "P", "A", "C", "E", ":", "*">>,
     <<"C", "a", "t", "a", "l", "o", "g", ":", "x">>,
     <<"1", "5", ".", "3", ".", "0", "\f", "1", "5">>}

\* specifiers with code units outside ASCII: every white space character
\* around a version, white space of several kinds before an operator, after
\* it and around a hyphen, characters that look like white space or digits
\* and are none (U+0085, U+180E, U+200B, U+FF11), and letters outside ASCII
\* with a lower-case mapping (U+212A gives k, U+0130 gives i and U+0307)
WideSpecStrings ==
    {<<CodeUnit(n)>> \o StableStr(15, 3, 0) \o <<CodeUnit(n)>> : n \in WhiteSpaceCodes}
    \cup {<<CodeUnit(11)>> \o StableStr(15, 3, 0),
          StableStr(15, 3, 0) \o <<CodeUnit(160)>>,
          <<CodeUnit(65279)>> \o StableStr(15, 3, 0) \o <<" ">>,
          <<"^", CodeUnit(8232)>> \o CanaryStr(15, 6, 0, 10) \o <<CodeUnit(12288)>>,
          <<CodeUnit(160), "^">> \o StableStr(15, 3, 0),
          StableStr(15, 0, 0) \o <<CodeUnit(160), "-", CodeUnit(160)>>
              \o StableStr(16, 0, 0),
          <<">", "=">> \o StableStr(1, 0, 0) \o <<CodeUnit(8232), "-", CodeUnit(11)>>
              \o StableStr(2, 0, 0),
          <<"^", "1", CodeUnit(160), "-", CodeUnit(160), "2">>,
          StableStr(15, 3, 0) \o <<CodeUnit(8203)>>,
          <<CodeUnit(133)>> \o StableStr(15, 3, 0),
          <<CodeUnit(6158)>> \o StableStr(15, 3, 0),
          <<CodeUnit(65297), "5", ".", "3", ".", "0">>,
          <<"W", "O", "R", CodeUnit(8490), "S", "P", "A", "C", "E", ":", "*">>,
          <<"L", "A", "T", "E", "S", "T", CodeUnit(160)>>,
          <<"N", "P", "M", ":", CodeUnit(201)>>,
          <<"C", "A", "T", "A", "L", "O", "G", ":", CodeUnit(304)>>,
          <<"1", "5", ".", CodeUnit(8490)>>}

SpecStrings ==
    {p \o b \o s : p \in Prefixes, b \in FormattedVersions \cup OtherBodies,
                   s \in Suffixes}
    \cup WideSpecStrings

\* the specifiers with at most one character before the version
ShortSpecStrings ==
    {p \o b \o s : p \in {x \in Prefixes : Len(x) <= 1 \/ x[1] = "\t"},
                   b \in FormattedVersions \cup OtherBodies, s \in Suffixes}
    \cup WideSpecStrings

NewVersions == {StableStr(15, 3, 7), CanaryStr(15, 6, 0, 59)}

\* the numerals of 2^53 - 1, 2^53, 2^53 + 1 and 2^53 + 2, around the first
\* integer that is not a double
LargeNumerals ==
    {<<"9", "0", "0", "7", "1", "9", "9", "2", "5", "4", "7", "4", "0", "9", "9", "1">>,
     <<"9", "0", "0", "7", "1", "9", "9", "2", "5", "4", "7", "4", "0", "9", "9", "2">>,
     <<"9", "0", "0", "7", "1", "9", "9", "2", "5", "4", "7", "4", "0", "9", "9", "3">>,
     <<"9", "0", "0", "7", "1", "9", "9", "2", "5", "4", "7", "4", "0", "9", "9", "4">>}

\* two numerals of MaxDigits + 1 digits, which parseInt reads as Infinity:
\* 99..9 and 10..0
InfiniteNumerals ==
    {[i \in 1..(MaxDigits + 1) |-> "9"],
     <<"1">> \o [i \in 1..MaxDigits |-> "0"]}

\* the triple the large sequence numbers are written at
LargeTriple == <<15, 6, 0>>

\* the sequence numbers written at triple t, as numerals
SequenceNumerals(t) ==
    {NumStr(n) : n \in 0..MaxSeqStr}
    \cup (IF t = LargeTriple THEN LargeNumerals \cup InfiniteNumerals ELSE {})

\* canary and rc versions with a sequence number of sixteen digits, and
\* with one that is Infinity
LargeVersions ==
    {StableStr(LargeTriple[1], LargeTriple[2], LargeTriple[3]) \o tag \o m :
        tag \in {CanaryTag, RcTag}, m \in LargeNumerals \cup InfiniteNumerals}

\* versions with white space outside ASCII around them
WideVersions ==
    {<<CodeUnit(11)>> \o StableStr(15, 3, 0), StableStr(15, 6, 0) \o <<CodeUnit(160)>>}

\* the objects parseVersion returns for the three forms
StableVersion(t) ==
    [null |-> FALSE, major |-> Num(t[1]), minor |-> Num(t[2]), patch |-> Num(t[3]),
     isCanary |-> FALSE, isRC |-> FALSE, isStable |-> TRUE,
     raw |-> StableStr(t[1], t[2], t[3])]

CanaryVersion(t, n) ==
    [null |-> FALSE, major |-> Num(t[1]), minor |-> Num(t[2]), patch |-> Num(t[3]),
     canary |-> Num(n), isCanary |-> TRUE, isRC |-> FALSE, isStable |-> FALSE,
     raw |-> CanaryStr(t[1], t[2], t[3], n)]

RcVersion(t, n) ==
    [null |-> FALSE, major |-> Num(t[1]), minor |-> Num(t[2]), patch |-> Num(t[3]),
     rc |-> Num(n), isCanary |-> FALSE, isRC |-> TRUE, isStable |-> FALSE,
     raw |-> RcStr(t[1], t[2], t[3], n)]

ComparedTriples == {<<ma, mi, pa>> : ma \in {15, 16}, mi \in {0, 1}, pa \in 0..MaxPart}

\* what parseVersion returns for a canary and for an rc version whose
\* sequence number is read as Infinity
InfiniteVersions ==
    {parseVersion(StableStr(15, 0, 0) \o tag \o [i \in 1..(MaxDigits + 1) |-> "9"]) :
        tag \in {CanaryTag, RcTag}}

\* parsed versions that are compared with one another
ComparedVersions ==
    {StableVersion(t) : t \in ComparedTriples}
    \cup {CanaryVersion(t, n) : t \in ComparedTriples, n \in 0..MaxSeq}
    \cup {RcVersion(t, n) : t \in ComparedTriples, n \in 0..MaxSeq}
    \cup InfiniteVersions

(***************************************************************************)
(* Calls of the version utilities: each action is one call of an exported  *)
(* function of lib/utils/version.js, with its arguments and its result.    *)
(***************************************************************************)
PipelineOff ==
    /\ pc = "off" /\ manifestOk = TRUE /\ pkgJson = Pkg(UNDEFINED)
    /\ deps = <<>> /\ devDeps = <<>> /\ pmVersion = <<>> /\ nmVersion = <<>>
    /\ lookups = {} /\ evaluated = {} /\ analysis = <<>> /\ minimalFixes = <<>>
    /\ analysisAfter = <<>>

PipelineVars ==
    <<pc, manifestOk, pkgJson, deps, devDeps, pmVersion, nmVersion, lookups, evaluated, analysis,
      minimalFixes, analysisAfter>>

InitVersion == op = "none" /\ args = <<>> /\ ret = <<>> /\ PipelineOff

Idle == op = "none"

Call(name, a, r) ==
    /\ op' = name /\ args' = a /\ ret' = r
    /\ UNCHANGED PipelineVars

CallParseVersion ==
    /\ Idle
    /\ \E s \in SpecStrings \cup {NULL, UNDEFINED} : Call("parseVersion", <<s>>, parseVersion(s))

CallCompareVersions ==
    /\ Idle
    /\ \E a \in FormattedVersions \cup LargeVersions,
          b \in FormattedVersions \cup WideVersions \cup LargeVersions :
        Call("compareVersions", <<a, b>>, compareVersions(a, b))

\* compareVersions on every pair of three parsed versions
CallCompareParsed ==
    /\ Idle
    /\ \E a \in ComparedVersions, b \in ComparedVersions, c \in ComparedVersions :
        Call("compareParsed", <<a, b, c>>,
             [aa |-> compareParsed(a, a), ab |-> compareParsed(a, b),
              ba |-> compareParsed(b, a), bc |-> compareParsed(b, c),
              ac |-> compareParsed(a, c)])

CallCleanVersion ==
    /\ Idle
    /\ \E s \in ShortSpecStrings \cup {NULL, UNDEFINED} : Call("cleanVersion", <<s>>, cleanVersion(s))

CallIsUnparseableVersionSpec ==
    /\ Idle
    /\ \E s \in ShortSpecStrings \cup {NULL, UNDEFINED} :
        Call("isUnparseableVersionSpec", <<s>>, isUnparseableVersionSpec(s))

CallHasRangeSpecifier ==
    /\ Idle
    /\ \E s \in ShortSpecStrings \cup {NULL, UNDEFINED} :
        Call("hasRangeSpecifier", <<s>>, hasRangeSpecifier(s))

CallGetVersionPrefix ==
    /\ Idle
    /\ \E s \in SpecStrings \cup {NULL, UNDEFINED} :
        Call("getVersionPrefix", <<s>>, getVersionPrefix(s))

CallHasUnsupportedRange ==
    /\ Idle
    /\ \E s \in SpecStrings \cup {NULL, UNDEFINED} :
        Call("hasUnsupportedRange", <<s>>, hasUnsupportedRange(s))

CallApplyVersionPrefix ==
    /\ Idle
    /\ \E s \in SpecStrings, v \in NewVersions :
        Call("applyVersionPrefix", <<s, v>>, applyVersionPrefix(s, v))

NextVersion ==
    \/ CallParseVersion
    \/ CallCompareVersions
    \/ CallCompareParsed
    \/ CallCleanVersion
    \/ CallIsUnparseableVersionSpec
    \/ CallHasRangeSpecifier
    \/ CallGetVersionPrefix
    \/ CallHasUnsupportedRange
    \/ CallApplyVersionPrefix

SpecVersion == InitVersion /\ [][NextVersion]_vars

(***************************************************************************)
(* Properties of the version utilities (checked under SpecVersion).        *)
(***************************************************************************)
\* the sign of x - y, from the binary digits of x and y
Order(x, y) == IF Less(x, y) THEN -1 ELSE IF Less(y, x) THEN 1 ELSE 0

\* r.xy being a compared with b: a compares equal to itself, swapping the
\* arguments flips the sign, and a <= b and b <= c give a <= c; major, then
\* minor, then patch decide before the channel and the sequence number; two
\* stable versions with the same triple compare equal
PreorderAt(a, b, c, r) ==
    /\ r.aa = Zero
    /\ Sign(r.ab) = -Sign(r.ba)
    /\ (r.ab # NaN /\ Sign(r.ab) <= 0 /\ r.bc # NaN /\ Sign(r.bc) <= 0)
         => (r.ac # NaN /\ Sign(r.ac) <= 0)
    /\ a.major # b.major => Sign(r.ab) = Order(a.major, b.major)
    /\ (a.major = b.major /\ a.minor # b.minor)
         => Sign(r.ab) = Order(a.minor, b.minor)
    /\ (a.major = b.major /\ a.minor = b.minor /\ a.patch # b.patch)
         => Sign(r.ab) = Order(a.patch, b.patch)
    /\ (a.major = b.major /\ a.minor = b.minor /\ a.patch = b.patch
        /\ a.isStable /\ b.isStable) => r.ab = Zero

\* C3: compareVersions is a total preorder on parsed versions: a version
\* compares equal to itself, swapping the arguments flips the sign, and
\* a <= b and b <= c give a <= c; major, then minor, then patch decide
\* before the channel and the sequence number; two stable versions with the
\* same triple compare equal.
C3_TotalPreorder ==
    op = "compareParsed" => PreorderAt(args[1], args[2], args[3], ret)

\* a canary or an rc version with the sequence number Infinity compared
\* with itself: the result is NaN
ComparedWithItself ==
    /\ op = "compareParsed"
    /\ args[1] \in InfiniteVersions
    /\ ret.aa = NaN

\* the same holds of the versions whose sequence numbers are not Infinity
TotalPreorderOfFinite ==
    (op = "compareParsed" /\ \A i \in 1..3 : args[i] \notin InfiniteVersions)
        => PreorderAt(args[1], args[2], args[3], ret)

\* a stable version with the lower patch number against a canary with the
\* higher one, and a chain canary < rc < stable
PrecedenceCompared ==
    /\ op = "compareParsed"
    /\ args[1].isStable /\ args[2].isCanary /\ args[3].isRC
    /\ args[1].major = args[2].major /\ args[1].minor = args[2].minor
    /\ Less(args[1].patch, args[2].patch)
    /\ args[2].patch = args[3].patch /\ args[2].major = args[3].major
    /\ args[2].minor = args[3].minor
    /\ Sign(ret.ab) < 0 /\ Sign(ret.bc) < 0 /\ Sign(ret.ac) < 0

\* the canary and rc versions written at triple t
CanaryStrs(t) ==
    {StableStr(t[1], t[2], t[3]) \o CanaryTag \o m : m \in SequenceNumerals(t)}

RcStrs(t) ==
    {StableStr(t[1], t[2], t[3]) \o RcTag \o m : m \in SequenceNumerals(t)}

\* <<lower channel, higher channel>>
ChannelPairs ==
    UNION {(CanaryStrs(t) \X RcStrs(t))
           \cup (RcStrs(t) \X {StableStr(t[1], t[2], t[3])})
           \cup (CanaryStrs(t) \X {StableStr(t[1], t[2], t[3])})
           : t \in VersionTriples}

\* the integer written m is below the integer written n, for numerals that
\* do not start with 0: the shorter one is, and of two of one length the one
\* with the lower digit at the first place they differ at
NumeralLess(m, n) ==
    \/ Len(m) < Len(n)
    \/ /\ Len(m) = Len(n)
       /\ \E i \in 1..Len(m) :
             /\ DigitValue(m[i]) < DigitValue(n[i])
             /\ \A j \in 1..(i - 1) : m[j] = n[j]

\* <<sequence m, sequence n>> of one channel, with m < n (lt) or m >= n,
\* the numerals taken from the sets given
SequencePairs(lt, numerals(_)) ==
    UNION {{<<StableStr(t[1], t[2], t[3]) \o tag \o mn[1],
              StableStr(t[1], t[2], t[3]) \o tag \o mn[2]>> :
               tag \in {CanaryTag, RcTag},
               mn \in {x \in numerals(t) \X numerals(t) :
                          NumeralLess(x[1], x[2]) = lt}}
           : t \in VersionTriples}

SequenceBelow == SequencePairs(TRUE, SequenceNumerals)

SequenceNotBelow == SequencePairs(FALSE, SequenceNumerals)

\* C4: at one (major, minor, patch) triple every canary is below every rc and
\* every rc is below the stable version, and within a channel the versions
\* are ordered by their sequence numbers: X-canary.m is below X-canary.n,
\* and X-rc.m below X-rc.n, exactly when m < n.
C4_ChannelOrder ==
    op = "compareVersions" =>
        /\ args \in ChannelPairs => Sign(ret) < 0
        /\ <<args[2], args[1]>> \in ChannelPairs => Sign(ret) > 0
        /\ args \in SequenceBelow => Sign(ret) < 0
        /\ args \in SequenceNotBelow => Sign(ret) >= 0

\* the sequence numbers up to 2^53, the integers that are all doubles
ExactNumerals(t) ==
    {m \in SequenceNumerals(t) :
        ~NumeralLess(<<"9", "0", "0", "7", "1", "9", "9", "2", "5", "4", "7", "4",
                       "0", "9", "9", "2">>, m)}

ExactBelow == SequencePairs(TRUE, ExactNumerals)

ExactNotBelow == SequencePairs(FALSE, ExactNumerals)

\* the order of the channels holds at every sequence number, and the order
\* within a channel for the sequence numbers up to 2^53
ChannelOrderOfExact ==
    op = "compareVersions" =>
        /\ args \in ChannelPairs => Sign(ret) < 0
        /\ <<args[2], args[1]>> \in ChannelPairs => Sign(ret) > 0
        /\ args \in ExactBelow => Sign(ret) < 0
        /\ args \in ExactNotBelow => Sign(ret) >= 0

\* canary.9 against canary.10: the sequence is compared as a number
ComparedAsNumbers ==
    /\ op = "compareVersions"
    /\ args = <<CanaryStr(15, 6, 0, 9), CanaryStr(15, 6, 0, 10)>>
    /\ Sign(ret) < 0

\* C7: applyVersionPrefix gives the prefix of the original specifier followed
\* by the new version when the specifier is not an unsupported range, and
\* the new version alone when it is.
C7_ApplyVersionPrefix ==
    op = "applyVersionPrefix" =>
        IF hasUnsupportedRange(args[1]).unsupported
        THEN ret = args[2]
        ELSE ret = getVersionPrefix(args[1]) \o args[2]

\* an unsupported range that starts with a preservable operator
C7_Witness ==
    /\ op = "applyVersionPrefix"
    /\ hasUnsupportedRange(args[1]).unsupported
    /\ getVersionPrefix(args[1]) # <<>>
    /\ ret = args[2]

\* the bare versions, and the versions with one preservable operator
SimpleSpecifiers ==
    {p \o b : p \in {<<>>, <<"^">>, <<"~">>, <<">", "=">>, <<">">>},
              b \in FormattedVersions}

\* C8: hasUnsupportedRange reports the first shape that matches in the order
\* hyphen-range, or-range, x-range, less-than-range; an exact version and a
\* version behind one of ^, ~, >=, > is not unsupported.
C8_FirstShapeWins ==
    op = "hasUnsupportedRange" =>
        LET s == args[1]
        IN  /\ (Truthy(s) /\ HyphenRangeShape(s))
                 => ret = [unsupported |-> TRUE, reason |-> "hyphen-range"]
            /\ (Truthy(s) /\ ~HyphenRangeShape(s) /\ OrRangeShape(s))
                 => ret = [unsupported |-> TRUE, reason |-> "or-range"]
            /\ (Truthy(s) /\ ~HyphenRangeShape(s) /\ ~OrRangeShape(s)
                /\ XRangeShape(s))
                 => ret = [unsupported |-> TRUE, reason |-> "x-range"]
            /\ (Truthy(s) /\ ~HyphenRangeShape(s) /\ ~OrRangeShape(s)
                /\ ~XRangeShape(s) /\ LessThanShape(s))
                 => ret = [unsupported |-> TRUE, reason |-> "less-than-range"]
            /\ s \in SimpleSpecifiers => ret.unsupported = FALSE

\* a specifier of three shapes at once: or-range, x-range and less-than
C8_Witness ==
    /\ op = "hasUnsupportedRange"
    /\ OrRangeShape(args[1]) /\ XRangeShape(args[1]) /\ LessThanShape(args[1])
    /\ ret.reason = "or-range"

\* C9: getVersionPrefix returns the operator ^, ~, >= or > the specifier
\* starts with, and the empty string otherwise (a specifier that starts with
\* < or <=, an exact version, null).
C9_PreservablePrefix ==
    op = "getVersionPrefix" =>
        LET s == args[1]
        IN  /\ ret \in {<<"^">>, <<"~">>, <<">", "=">>, <<">">>, <<>>}
            /\ \A p \in {<<"^">>, <<"~">>, <<">", "=">>} :
                   (s \notin {NULL, UNDEFINED} /\ startsWith(s, p)) => ret = p
            /\ (s \notin {NULL, UNDEFINED} /\ startsWith(s, <<">">>)
                    /\ ~startsWith(s, <<">", "=">>))
                   => ret = <<">">>
            /\ (s \in {NULL, UNDEFINED}
                    \/ ~\E p \in {<<"^">>, <<"~">>, <<">">>} : startsWith(s, p))
                   => ret = <<>>

\* a specifier that starts with <=
C9_Witness ==
    /\ op = "getVersionPrefix"
    /\ startsWith(args[1], <<"<", "=">>)
    /\ Len(args[1]) > 2
    /\ ret = <<>>

\* the strings b such that s is a run of operator characters, white space, b
\* and white space again, b neither starting nor ending with white space
Bodies(s) ==
    UNION {UNION {{SubSeq(s, j + 1, k) :
                     k \in {y \in j..Len(s) :
                              /\ \A x \in (y + 1)..Len(s) : s[x] \in WhiteSpace
                              /\ y > j => (s[j + 1] \notin WhiteSpace
                                           /\ s[y] \notin WhiteSpace)}}
                  : j \in {y \in i..Len(s) :
                             \A x \in (i + 1)..y : s[x] \in WhiteSpace}}
           : i \in {y \in 0..Len(s) : \A x \in 1..y : IsOperatorChar(s[x])}}

\* the Version parseVersion is to return for the formatted version b
IsVersionOf(v, b) ==
    \E t \in VersionTriples :
        /\ v.null = FALSE
        /\ v.major = Num(t[1]) /\ v.minor = Num(t[2]) /\ v.patch = Num(t[3])
        /\ v.raw = b
        /\ \/ b = StableStr(t[1], t[2], t[3]) /\ v.isStable
              /\ ~v.isCanary /\ ~v.isRC
           \/ \E n \in 0..MaxSeqStr :
                 \/ b = CanaryStr(t[1], t[2], t[3], n) /\ v.isCanary
                    /\ v.canary = Num(n) /\ ~v.isRC /\ ~v.isStable
                 \/ b = RcStr(t[1], t[2], t[3], n) /\ v.isRC
                    /\ v.rc = Num(n) /\ ~v.isCanary /\ ~v.isStable

\* C10 as stated: parseVersion returns a Version exactly for the strings of
\* the three forms with no leading operator.
C10_Original ==
    op = "parseVersion" =>
        (ret # NullVersion <=> args[1] \in FormattedVersions)

\* C10 amended: parseVersion returns a Version exactly for the strings that
\* are of one of the three forms once the leading run of operator characters
\* is removed and the white space around the rest is trimmed; the Version holds
\* the numbers of that form.
C10_ParseAfterCleaning ==
    op = "parseVersion" =>
        LET s == args[1]
            forms == IF s \in {NULL, UNDEFINED} THEN {}
                     ELSE Bodies(s) \cap FormattedVersions
        IN  /\ ret # NullVersion <=> forms # {}
            /\ \A b \in forms : IsVersionOf(ret, b)

\* an operator, a line separator (U+2028), a canary with a two-digit
\* sequence number and an ideographic space (U+3000)
C10_Witness ==
    /\ op = "parseVersion"
    /\ args[1] = <<"^", CodeUnit(8232)>> \o CanaryStr(15, 6, 0, 10)
                     \o <<CodeUnit(12288)>>
    /\ ret # NullVersion /\ ret.isCanary /\ ret.canary = Num(10)

(***************************************************************************)
(* lib/index.js: the minimal-fix planner.                                  *)
(*                                                                         *)
(* A text that is never taken apart (a note, a path, a name) is a sequence *)
(* of one element, so that NULL and the empty string stand for it as for   *)
(* any other string.                                                       *)
(***************************************************************************)
RECURSIVE highestVersionLowest(_, _)
\* the comparison turned round: < 0 for > 0
highestVersionLowest(cves, highestVersion) ==
    IF cves = <<>> THEN highestVersion
    ELSE Only({highestVersionLowest(Tail(cves), next) :
               next \in {IF Truthy(Head(cves).patchedVersion)
                            /\ (~Truthy(highestVersion)
                                \/ Sign(compareVersions(Head(cves).patchedVersion,
                                                        highestVersion)) < 0)
                         THEN Head(cves).patchedVersion
                         ELSE highestVersion}})

RECURSIVE highestVersionFrom(_, _)
\* the loop over vuln.cves that keeps the highest patched version
highestVersionFrom(cves, highestVersion) ==
    IF cves = <<>> THEN highestVersion
    ELSE Only({highestVersionFrom(Tail(cves), next) :
               next \in {IF Truthy(Head(cves).patchedVersion)
                            /\ (~Truthy(highestVersion)
                                \/ Sign(compareVersions(Head(cves).patchedVersion,
                                                        highestVersion)) > 0)
                         THEN Head(cves).patchedVersion
                         ELSE highestVersion}})

\* the first truthy value of field f (1 = note, 2 = alternative) among the
\* cves, or null: notes[0] and alternatives[0]
FirstTruthy(cves, f) ==
    LET val(cve) == IF f = 1 THEN cve.note ELSE cve.alternative
        idx == {i \in 1..Len(cves) : Truthy(val(cves[i]))}
    IN  IF idx = {} THEN NULL
        ELSE val(cves[CHOOSE i \in idx : \A j \in idx : i <= j])

\* the identifiers listed from the last matched advisory to the first
FixOfIdsReversed(vuln) ==
    [package |-> vuln.package,
     current |-> vuln.current,
     patched |-> highestVersionFrom(vuln.cves, NULL),
     cves |-> [i \in 1..Len(vuln.cves) |-> vuln.cves[Len(vuln.cves) + 1 - i].id],
     note |-> FirstTruthy(vuln.cves, 1),
     alternative |-> FirstTruthy(vuln.cves, 2),
     inDeps |-> vuln.inDeps,
     inDevDeps |-> vuln.inDevDeps]

\* note and alternative both taken from the first advisory that has a note
FixOfNoteWithAlternative(vuln) ==
    [package |-> vuln.package,
     current |-> vuln.current,
     patched |-> highestVersionFrom(vuln.cves, NULL),
     cves |-> [i \in 1..Len(vuln.cves) |-> vuln.cves[i].id],
     note |-> FirstTruthy(vuln.cves, 1),
     alternative |->
        IF \E i \in 1..Len(vuln.cves) : Truthy(vuln.cves[i].note)
        THEN vuln.cves[CHOOSE i \in 1..Len(vuln.cves) :
                          /\ Truthy(vuln.cves[i].note)
                          /\ \A j \in 1..(i - 1) : ~Truthy(vuln.cves[j].note)].alternative
        ELSE NULL,
     inDeps |-> vuln.inDeps,
     inDevDeps |-> vuln.inDevDeps]

\* the Fix of one finding
FixOf(vuln) ==
    [package |-> vuln.package,
     current |-> vuln.current,
     patched |-> highestVersionFrom(vuln.cves, NULL),
     cves |-> [i \in 1..Len(vuln.cves) |-> vuln.cves[i].id],
     note |-> FirstTruthy(vuln.cves, 1),
     alternative |-> FirstTruthy(vuln.cves, 2),
     inDeps |-> vuln.inDeps,
     inDevDeps |-> vuln.inDevDeps]

\* an entry for every file, also for one without findings
FileFixesAlways(file) ==
    <<[path |-> file.path, name |-> file.name,
       fixes |-> [i \in 1..Len(file.vulnerabilities) |->
                     FixOf(file.vulnerabilities[i])]]>>

\* the entry of fixes for one file: none when the file has no finding
FileFixes(file) ==
    IF Len(file.vulnerabilities) > 0
    THEN <<[path |-> file.path, name |-> file.name,
            fixes |-> [i \in 1..Len(file.vulnerabilities) |->
                          FixOf(file.vulnerabilities[i])]]>>
    ELSE <<>>

RECURSIVE computeMinimalFixes(_)
computeMinimalFixes(analysisResults) ==
    IF analysisResults = <<>> THEN <<>>
    ELSE FileFixes(Head(analysisResults))
         \o computeMinimalFixes(Tail(analysisResults))

(***************************************************************************)
(* Calls of the planner: findings as analyzePackageJson builds them, with  *)
(* up to MaxCves matched advisories each.                                  *)
(***************************************************************************)
\* lib/vulnerabilities/index.js: the identifiers and the severities of the
\* registry, in its order
RegistryIds ==
    <<"CVE-2025-66478", "CVE-2025-55184", "CVE-2025-55183", "CVE-2025-55182",
      "CVE-2025-67779">>

RegistrySeverities == <<"critical", "high", "medium", "critical", "high">>

Note14 == <<"Downgrade to safe canary or upgrade to 15.0.5">>

\* versions the advisories recommend
PlannedVersions ==
    {StableStr(15, 1, 9), StableStr(15, 1, 10), CanaryStr(15, 6, 0, 58),
     CanaryStr(15, 6, 0, 59), RcStr(15, 6, 0, 1), StableStr(15, 6, 0),
     CanaryStr(14, 3, 0, 77), StableStr(15, 1, 10) \o <<"\t">>,
     <<CodeUnit(11)>> \o StableStr(15, 1, 10)}

\* the entry analyzePackageJson pushes for advisory i with recommendation v
CveEntry(i, v) ==
    [id |-> RegistryIds[i],
     severity |-> RegistrySeverities[i],
     patchedVersion |-> v,
     alternative |-> IF v = CanaryStr(14, 3, 0, 77) THEN StableStr(15, 0, 5) ELSE NULL,
     note |-> IF v = CanaryStr(14, 3, 0, 77) THEN Note14 ELSE NULL]

CveLists ==
    {[i \in 1..Len(vs) |-> CveEntry(i, vs[i])] :
        vs \in SeqsUpTo(PlannedVersions \cup {NULL}, MaxCves)}

PlannedFinding(cves) ==
    [package |-> "next", current |-> StableStr(15, 1, 0), cves |-> cves,
     inDeps |-> TRUE, inDevDeps |-> FALSE]

PlannedFile(n, vulns) ==
    [path |-> <<IF n = 1 THEN "package.json" ELSE "apps/web/package.json">>,
     name |-> <<IF n = 1 THEN "root" ELSE "web">>,
     vulnerabilities |-> vulns]

\* the second finding of a file with two findings
FixedFinding ==
    [package |-> "react-server-dom-webpack", current |-> StableStr(19, 1, 0),
     cves |-> <<CveEntry(1, StableStr(19, 1, 2))>>,
     inDeps |-> FALSE, inDevDeps |-> TRUE]

\* one file with one finding; one file with two findings; a file without
\* findings before a file with one
PlannedResults(cves) ==
    {<<PlannedFile(1, <<PlannedFinding(cves)>>)>>,
     <<PlannedFile(1, <<PlannedFinding(cves), FixedFinding>>)>>,
     <<PlannedFile(1, <<>>), PlannedFile(2, <<PlannedFinding(cves)>>)>>}

CallComputeMinimalFixes ==
    /\ Idle
    /\ \E cves \in CveLists : \E results \in PlannedResults(cves) :
        Call("computeMinimalFixes", <<results>>, computeMinimalFixes(results))

\* notes and alternatives of matched advisories: absent, empty, or a text
NoteA == <<"Downgrade to safe canary or upgrade to 15.0.5">>

NoteB == <<"Requires React 19.0.1 or later">>

Notes == {NULL, <<>>, NoteA, NoteB}

Alternatives == {NULL, <<>>, StableStr(15, 0, 5), StableStr(14, 2, 34)}

\* the entry pushed for advisory i, with a note and an alternative
NotedEntry(i, na) ==
    [id |-> RegistryIds[i],
     severity |-> RegistrySeverities[i],
     patchedVersion |-> StableStr(15, 1, 9),
     alternative |-> na[2],
     note |-> na[1]]

NotedLists ==
    {[i \in 1..Len(nas) |-> NotedEntry(i, nas[i])] :
        nas \in SeqsUpTo(Notes \X Alternatives, MaxCves)}

\* computeMinimalFixes on a finding whose advisories carry notes
CallComputeMinimalFixesNoted ==
    /\ Idle
    /\ \E cves \in NotedLists :
        Call("computeMinimalFixes", <<<<PlannedFile(1, <<PlannedFinding(cves)>>)>>>>,
             computeMinimalFixes(<<PlannedFile(1, <<PlannedFinding(cves)>>)>>))

NextPlan ==
    \/ CallComputeMinimalFixes
    \/ CallComputeMinimalFixesNoted

SpecPlan == InitVersion /\ [][NextPlan]_vars

(***************************************************************************)
(* Properties of the planner (checked under SpecPlan).                     *)
(***************************************************************************)
HasFindings(file) == Len(file.vulnerabilities) > 0

\* the non-null patched versions of the advisories matched by a finding
PatchedVersions(vuln) ==
    {vuln.cves[j].patchedVersion : j \in 1..Len(vuln.cves)} \ {NULL}

\* C1: the target version of every Fix is the maximum, under compareVersions,
\* of the non-null patchedVersion values of its finding: it is one of them
\* and none of them is above it; it is null exactly when there is none.
C1_TargetIsMaximum ==
    op = "computeMinimalFixes" =>
        LET files == SelectSeq(args[1], HasFindings)
        IN  /\ Len(ret) = Len(files)
            /\ \A k \in 1..Len(files) :
                 /\ Len(ret[k].fixes) = Len(files[k].vulnerabilities)
                 /\ \A i \in 1..Len(files[k].vulnerabilities) :
                      LET fix == ret[k].fixes[i]
                          nonNull == PatchedVersions(files[k].vulnerabilities[i])
                      IN  /\ fix.patched = NULL <=> nonNull = {}
                          /\ nonNull # {} =>
                               /\ fix.patched \in nonNull
                               /\ \A p \in nonNull :
                                    Sign(compareVersions(fix.patched, p)) >= 0

\* null, 15.1.10 and 15.1.9 in this order: the target is 15.1.10
C1_Witness ==
    /\ op = "computeMinimalFixes"
    /\ Len(args[1]) = 1
    /\ Len(args[1][1].vulnerabilities[1].cves) = 3
    /\ args[1][1].vulnerabilities[1].cves[1].patchedVersion = NULL
    /\ args[1][1].vulnerabilities[1].cves[2].patchedVersion = StableStr(15, 1, 10)
    /\ args[1][1].vulnerabilities[1].cves[3].patchedVersion = StableStr(15, 1, 9)
    /\ ret[1].fixes[1].patched = StableStr(15, 1, 10)

\* C15: the cves list of a Fix holds the id of every matched advisory of its
\* finding, each exactly once, in the order the advisories were matched.
C15_CveIdsInOrder ==
    op = "computeMinimalFixes" =>
        LET files == SelectSeq(args[1], HasFindings)
        IN  \A k \in 1..Len(ret) : \A i \in 1..Len(ret[k].fixes) :
              LET fix == ret[k].fixes[i]
                  cves == files[k].vulnerabilities[i].cves
              IN  /\ Len(fix.cves) = Len(cves)
                  /\ \A j \in 1..Len(cves) : fix.cves[j] = cves[j].id
                  /\ \A id \in {cves[j].id : j \in 1..Len(cves)} :
                        Cardinality({j \in 1..Len(fix.cves) : fix.cves[j] = id}) = 1

C15_Witness ==
    /\ op = "computeMinimalFixes"
    /\ Len(args[1]) = 1
    /\ Len(args[1][1].vulnerabilities) = 1
    /\ Len(args[1][1].vulnerabilities[1].cves) = 3
    /\ ret[1].fixes[1].cves = <<RegistryIds[1], RegistryIds[2], RegistryIds[3]>>

\* C16: the note of a Fix is the note of the first matched advisory that has
\* a non-empty one, its alternative the alternative of the first matched
\* advisory that has one, each chosen on its own; both are null when no
\* advisory has one, and nothing of a later advisory is merged in.
C16_FirstNoteAndAlternative ==
    op = "computeMinimalFixes" =>
        LET files == SelectSeq(args[1], HasFindings)
        IN  \A k \in 1..Len(ret) : \A i \in 1..Len(ret[k].fixes) :
              LET fix == ret[k].fixes[i]
                  cves == files[k].vulnerabilities[i].cves
                  noted == {j \in 1..Len(cves) : cves[j].note \notin {NULL, <<>>}}
                  alted == {j \in 1..Len(cves) : cves[j].alternative \notin {NULL, <<>>}}
              IN  /\ noted = {} => fix.note = NULL
                  /\ alted = {} => fix.alternative = NULL
                  /\ \A j \in noted :
                        (\A h \in noted : j <= h) => fix.note = cves[j].note
                  /\ \A j \in alted :
                        (\A h \in alted : j <= h) => fix.alternative = cves[j].alternative

\* the first advisory has only an alternative, the second an empty note, the
\* third the first note and another alternative
C16_Witness ==
    /\ op = "computeMinimalFixes"
    /\ Len(args[1]) = 1
    /\ Len(args[1][1].vulnerabilities) = 1
    /\ Len(args[1][1].vulnerabilities[1].cves) = 3
    /\ args[1][1].vulnerabilities[1].cves[1].note = NULL
    /\ args[1][1].vulnerabilities[1].cves[1].alternative = StableStr(14, 2, 34)
    /\ args[1][1].vulnerabilities[1].cves[2].note = <<>>
    /\ args[1][1].vulnerabilities[1].cves[3].note = NoteB
    /\ args[1][1].vulnerabilities[1].cves[3].alternative = StableStr(15, 0, 5)
    /\ ret[1].fixes[1].note = NoteB
    /\ ret[1].fixes[1].alternative = StableStr(14, 2, 34)

\* C17: the result has one entry per analysed manifest that has findings, in
\* the order of the manifests, with one Fix per finding in the order of the
\* findings; the entry of a manifest is the one computed for that manifest
\* alone; a manifest without findings has no entry.
C17_OneFixPerFinding ==
    op = "computeMinimalFixes" =>
        LET files == SelectSeq(args[1], HasFindings)
        IN  /\ Len(ret) = Len(files)
            /\ \A k \in 1..Len(ret) :
                 /\ ret[k].path = files[k].path
                 /\ ret[k].name = files[k].name
                 /\ Len(ret[k].fixes) = Len(files[k].vulnerabilities)
                 /\ Len(ret[k].fixes) > 0
                 /\ \A i \in 1..Len(ret[k].fixes) :
                      /\ ret[k].fixes[i].package = files[k].vulnerabilities[i].package
                      /\ ret[k].fixes[i].current = files[k].vulnerabilities[i].current
                      /\ ret[k].fixes[i].inDeps = files[k].vulnerabilities[i].inDeps
                      /\ ret[k].fixes[i].inDevDeps = files[k].vulnerabilities[i].inDevDeps
                 /\ <<ret[k]>> = computeMinimalFixes(<<files[k]>>)

\* a manifest without findings before a manifest with one
C17_Witness ==
    /\ op = "computeMinimalFixes"
    /\ Len(args[1]) = 2
    /\ args[1][1].vulnerabilities = <<>>
    /\ Len(args[1][2].vulnerabilities) = 1
    /\ Len(ret) = 1
    /\ ret[1].path = args[1][2].path
    /\ Len(ret[1].fixes) = 1

(***************************************************************************)
(* The rule of CVE-2025-66478 (isNextVersionVulnerable and the functions   *)
(* next to it).  It is the advisory of the registry whose rule is among    *)
(* the sources; the resolver below is run with it.                         *)
(***************************************************************************)
\* the table with an older patched version for the 15.4 line
NEXT_PATCHED_VERSIONS_Older(major, minor) ==
    CASE major = Num(15) /\ minor = Num(0) -> StableStr(15, 0, 5)
      [] major = Num(15) /\ minor = Num(1) -> StableStr(15, 1, 9)
      [] major = Num(15) /\ minor = Num(2) -> StableStr(15, 2, 6)
      [] major = Num(15) /\ minor = Num(3) -> StableStr(15, 3, 6)
      [] major = Num(15) /\ minor = Num(4) -> StableStr(15, 4, 7)
      [] major = Num(15) /\ minor = Num(5) -> StableStr(15, 5, 7)
      [] major = Num(16) /\ minor = Num(0) -> StableStr(16, 0, 7)
      [] OTHER -> NULL

\* NEXT_PATCHED_VERSIONS[`${major}.${minor}`], null for a line not listed
NEXT_PATCHED_VERSIONS(major, minor) ==
    CASE major = Num(15) /\ minor = Num(0) -> StableStr(15, 0, 5)
      [] major = Num(15) /\ minor = Num(1) -> StableStr(15, 1, 9)
      [] major = Num(15) /\ minor = Num(2) -> StableStr(15, 2, 6)
      [] major = Num(15) /\ minor = Num(3) -> StableStr(15, 3, 6)
      [] major = Num(15) /\ minor = Num(4) -> StableStr(15, 4, 8)
      [] major = Num(15) /\ minor = Num(5) -> StableStr(15, 5, 7)
      [] major = Num(16) /\ minor = Num(0) -> StableStr(16, 0, 7)
      [] OTHER -> NULL

\* NEXT_CANARY_PATCHES[major]
NEXT_CANARY_PATCHES(major) ==
    CASE major = Num(15) -> CanaryStr(15, 6, 0, 58)
      [] major = Num(16) -> CanaryStr(16, 1, 0, 12)
      [] OTHER -> NULL

\* parsed.canary >= 77
NEXT_14_FIRST_VULNERABLE_CANARY == Num(77)

NEXT_14_SAFE_CANARY == CanaryStr(14, 3, 0, 77)

Verdict(vulnerable, reason) == [vulnerable |-> vulnerable, reason |-> reason]

\* isNextVersionVulnerable once the version is parsed
NextVerdict(parsed) ==
    IF parsed = NullVersion THEN Verdict(FALSE, <<"unparseable">>)
    ELSE IF Less(parsed.major, Num(14)) THEN Verdict(FALSE, <<"version-too-old">>)
    ELSE IF parsed.major = Num(14) THEN
        IF ~parsed.isCanary THEN Verdict(FALSE, <<"stable-14-not-affected">>)
        ELSE IF parsed.minor = Num(3)
                /\ ~Less(parsed.canary, NEXT_14_FIRST_VULNERABLE_CANARY)
             THEN Verdict(TRUE, <<"14.3-canary-77+">>)
        ELSE Verdict(FALSE, <<"canary-before-77">>)
    ELSE IF parsed.major = Num(15) THEN
        IF parsed.isCanary THEN
            IF Sign(compareVersions(parsed.raw, CanaryStr(15, 6, 0, 58))) < 0
            THEN Verdict(TRUE, <<"15.x-canary">>)
            ELSE Verdict(FALSE, <<"patched-canary">>)
        ELSE IF NEXT_PATCHED_VERSIONS(parsed.major, parsed.minor) = NULL THEN
            Verdict(Less(parsed.minor, Num(6)),
                    IF Less(parsed.minor, Num(6))
                    THEN <<"unknown-minor-assume-vulnerable">>
                    ELSE <<"unknown-minor-assume-safe">>)
        ELSE IF Sign(compareVersions(parsed.raw,
                    NEXT_PATCHED_VERSIONS(parsed.major, parsed.minor))) < 0
             THEN Verdict(TRUE, <<"below-",
                           NEXT_PATCHED_VERSIONS(parsed.major, parsed.minor)>>)
        ELSE Verdict(FALSE, <<"patched">>)
    ELSE IF parsed.major = Num(16) THEN
        IF parsed.isCanary THEN
            IF Sign(compareVersions(parsed.raw, CanaryStr(16, 1, 0, 12))) < 0
            THEN Verdict(TRUE, <<"16.x-canary">>)
            ELSE Verdict(FALSE, <<"patched-canary">>)
        ELSE IF NEXT_PATCHED_VERSIONS(parsed.major, parsed.minor) # NULL
                /\ Sign(compareVersions(parsed.raw,
                       NEXT_PATCHED_VERSIONS(parsed.major, parsed.minor))) < 0
             THEN Verdict(TRUE, <<"below-",
                           NEXT_PATCHED_VERSIONS(parsed.major, parsed.minor)>>)
        ELSE IF ~Less(parsed.minor, Num(1)) THEN Verdict(FALSE, <<"patched">>)
        ELSE IF parsed.minor = Zero /\ Less(parsed.patch, Num(7))
             THEN Verdict(TRUE, <<"below-16.0.7">>)
        ELSE Verdict(FALSE, <<"patched">>)
    ELSE Verdict(FALSE, <<"future-version">>)

isNextVersionVulnerable(version) ==
    Only({NextVerdict(parsed) : parsed \in {parseVersion(version)}})

\* REACT_RSC_PATCHES[cleaned], null for a version that is not a key
REACT_RSC_PATCHES(cleaned) ==
    CASE cleaned = StableStr(19, 0, 0) -> StableStr(19, 0, 1)
      [] cleaned = StableStr(19, 1, 0) -> StableStr(19, 1, 2)
      [] cleaned = StableStr(19, 1, 1) -> StableStr(19, 1, 2)
      [] cleaned = StableStr(19, 2, 0) -> StableStr(19, 2, 1)
      [] OTHER -> NULL

REACT_RSC_PACKAGES ==
    <<"react-server-dom-webpack", "react-server-dom-parcel",
      "react-server-dom-turbopack">>

\* REACT_RSC_PATCHES.hasOwnProperty(cleaned); version.replace raises on null
\* and on undefined
isReactRscVersionVulnerable(version) ==
    IF version \in {NULL, UNDEFINED} THEN TypeError
    ELSE REACT_RSC_PATCHES(cleanVersion(version)) # NULL

\* what a function returns that proposes no patched version
NoPatch == [null |-> TRUE, recommended |-> NULL, alternative |-> NULL, note |-> NULL]

Patch(recommended, alternative, note) ==
    [null |-> FALSE, recommended |-> recommended, alternative |-> alternative,
     note |-> note]

\* a patch for the listed release lines only: no 14.x canary case
NextPatchListedOnly(parsed) ==
    IF parsed = NullVersion THEN NoPatch
    ELSE IF parsed.isCanary /\ NEXT_CANARY_PATCHES(parsed.major) # NULL
         THEN Patch(NEXT_CANARY_PATCHES(parsed.major), NULL, NULL)
    ELSE IF NEXT_PATCHED_VERSIONS(parsed.major, parsed.minor) # NULL
         THEN Patch(NEXT_PATCHED_VERSIONS(parsed.major, parsed.minor), NULL, NULL)
    ELSE IF parsed.major = Num(15) THEN Patch(StableStr(15, 5, 7), NULL, NULL)
    ELSE IF parsed.major = Num(16) THEN Patch(StableStr(16, 0, 7), NULL, NULL)
    ELSE NoPatch

\* getNextPatchedVersion once the version is parsed
NextPatch(parsed) ==
    IF parsed = NullVersion THEN NoPatch
    ELSE IF parsed.major = Num(14) /\ parsed.isCanary
         THEN Patch(NEXT_14_SAFE_CANARY, StableStr(15, 0, 5), Note14)
    ELSE IF parsed.isCanary /\ NEXT_CANARY_PATCHES(parsed.major) # NULL
         THEN Patch(NEXT_CANARY_PATCHES(parsed.major), NULL, NULL)
    ELSE IF NEXT_PATCHED_VERSIONS(parsed.major, parsed.minor) # NULL
         THEN Patch(NEXT_PATCHED_VERSIONS(parsed.major, parsed.minor), NULL, NULL)
    ELSE IF parsed.major = Num(15) THEN Patch(StableStr(15, 5, 7), NULL, NULL)
    ELSE IF parsed.major = Num(16) THEN Patch(StableStr(16, 0, 7), NULL, NULL)
    ELSE NoPatch

getNextPatchedVersion(version) ==
    Only({NextPatch(parsed) : parsed \in {parseVersion(version)}})

\* the properties every object inherits from Object.prototype
ObjectPrototypeKeys ==
    {<<"c", "o", "n", "s", "t", "r", "u", "c", "t", "o", "r">>,
     <<"_", "_", "d", "e", "f", "i", "n", "e", "G", "e", "t", "t", "e", "r", "_", "_">>,
     <<"_", "_", "d", "e", "f", "i", "n", "e", "S", "e", "t", "t", "e", "r", "_", "_">>,
     <<"h", "a", "s", "O", "w", "n", "P", "r", "o", "p", "e", "r", "t", "y">>,
     <<"_", "_", "l", "o", "o", "k", "u", "p", "G", "e", "t", "t", "e", "r", "_", "_">>,
     <<"_", "_", "l", "o", "o", "k", "u", "p", "S", "e", "t", "t", "e", "r", "_", "_">>,
     <<"i", "s", "P", "r", "o", "t", "o", "t", "y", "p", "e", "O", "f">>,
     <<"p", "r", "o", "p", "e", "r", "t", "y", "I", "s", "E", "n", "u", "m", "e", "r", "a", "b", "l", "e">>,
     <<"t", "o", "S", "t", "r", "i", "n", "g">>,
     <<"v", "a", "l", "u", "e", "O", "f">>,
     <<"_", "_", "p", "r", "o", "t", "o", "_", "_">>,
     <<"t", "o", "L", "o", "c", "a", "l", "e", "S", "t", "r", "i", "n", "g">>}

\* the function or object an inherited property reads as
InheritedProperty(key) == <<"Object.prototype.">> \o key

\* REACT_RSC_PATCHES[cleaned] || null: an own key, else an inherited property
getReactRscPatchedVersion(version) ==
    IF version \in {NULL, UNDEFINED} THEN TypeError
    ELSE Only({IF REACT_RSC_PATCHES(cleaned) # NULL THEN REACT_RSC_PATCHES(cleaned)
               ELSE IF cleaned \in ObjectPrototypeKeys THEN InheritedProperty(cleaned)
               ELSE NULL :
               cleaned \in {cleanVersion(version)}})

(***************************************************************************)
(* Calls of the rule on versions of next.                                  *)
(***************************************************************************)
MaxRulePatch == 10       \* patch numbers of the stable versions given to the rule

\* the sequence numbers around the two canary cut-overs and the 14.3.0 one
CanaryNumbers == {11, 12, 13, 57, 58, 59, 76, 77, 78}

RuleVersions ==
    {StableStr(ma, mi, pa) : ma \in 13..17, mi \in 0..6, pa \in 0..MaxRulePatch}
    \cup {CanaryStr(ma, mi, pa, n) :
            ma \in 14..16, mi \in {0, 1, 3, 6, 7}, pa \in {0, 1}, n \in CanaryNumbers}
    \cup {RcStr(15, 3, 0, 1), <<"^">> \o StableStr(15, 3, 0),
            <<CodeUnit(11)>> \o StableStr(15, 3, 0),
            StableStr(15, 3, 0) \o <<CodeUnit(8233)>>,
            <<"l", "a", "t", "e", "s", "t">>, NULL}

CallIsNextVersionVulnerable ==
    /\ Idle
    /\ \E v \in RuleVersions :
        Call("isNextVersionVulnerable", <<v>>, isNextVersionVulnerable(v))

CallGetNextPatchedVersion ==
    /\ Idle
    /\ \E v \in RuleVersions :
        Call("getNextPatchedVersion", <<v>>, getNextPatchedVersion(v))

\* versions of the react-server-dom packages, names of inherited properties,
\* null and undefined
RscRuleVersions ==
    {StableStr(19, mi, pa) : mi \in 0..3, pa \in 0..2}
    \cup {<<"^">> \o StableStr(19, 0, 0), StableStr(19, 0, 0) \o <<"\t">>,
          <<"~", " ">> \o StableStr(19, 1, 1), StableStr(18, 2, 0),
          <<CodeUnit(11)>> \o StableStr(19, 0, 0),
          StableStr(19, 1, 0) \o <<CodeUnit(65279)>>,
          <<"l", "a", "t", "e", "s", "t">>, <<>>, NULL, UNDEFINED}
    \cup ObjectPrototypeKeys

CallIsReactRscVersionVulnerable ==
    /\ Idle
    /\ \E v \in RscRuleVersions :
        Call("isReactRscVersionVulnerable", <<v>>, isReactRscVersionVulnerable(v))

CallGetReactRscPatchedVersion ==
    /\ Idle
    /\ \E v \in RscRuleVersions :
        Call("getReactRscPatchedVersion", <<v>>, getReactRscPatchedVersion(v))

NextRule ==
    \/ CallIsNextVersionVulnerable
    \/ CallGetNextPatchedVersion
    \/ CallIsReactRscVersionVulnerable
    \/ CallGetReactRscPatchedVersion

SpecRule == InitVersion /\ [][NextRule]_vars

(***************************************************************************)
(* Properties of the rule (checked under SpecRule).                        *)
(***************************************************************************)
\* the lines of the README table: <<major, minor, patch of the patched version>>
PatchedLines ==
    {<<15, 0, 5>>, <<15, 1, 9>>, <<15, 2, 6>>, <<15, 3, 6>>, <<15, 4, 8>>,
     <<15, 5, 7>>, <<16, 0, 7>>}

\* <<mi, pa, n>> is below <<mi2, pa2, n2>>: minor, then patch, then sequence
CanaryBelow(a, b) ==
    \/ a[1] < b[1]
    \/ a[1] = b[1] /\ a[2] < b[2]
    \/ a[1] = b[1] /\ a[2] = b[2] /\ a[3] < b[3]

\* C18: a stable version on a line of the table is vulnerable exactly when
\* below the patched version of the line, which is the recommendation; a 15.x
\* canary is vulnerable exactly when below 15.6.0-canary.58 and a 16.x canary
\* exactly when below 16.1.0-canary.12, that canary being the recommendation;
\* a version with major below 14 or above 16 is never vulnerable.
C18_NextRule ==
    /\ \A l \in PatchedLines : \A pa \in 0..(MaxRulePatch + 1) :
          args = <<StableStr(l[1], l[2], pa)>> =>
            /\ op = "isNextVersionVulnerable" => (ret.vulnerable <=> pa < l[3])
            /\ op = "getNextPatchedVersion" =>
                  ret.recommended = StableStr(l[1], l[2], l[3])
    /\ \A mi \in {0, 1, 3, 6, 7}, pa \in {0, 1}, n \in CanaryNumbers :
          /\ args = <<CanaryStr(15, mi, pa, n)>> =>
                /\ op = "isNextVersionVulnerable" =>
                      (ret.vulnerable <=> CanaryBelow(<<mi, pa, n>>, <<6, 0, 58>>))
                /\ op = "getNextPatchedVersion" =>
                      ret.recommended = CanaryStr(15, 6, 0, 58)
          /\ args = <<CanaryStr(16, mi, pa, n)>> =>
                /\ op = "isNextVersionVulnerable" =>
                      (ret.vulnerable <=> CanaryBelow(<<mi, pa, n>>, <<1, 0, 12>>))
                /\ op = "getNextPatchedVersion" =>
                      ret.recommended = CanaryStr(16, 1, 0, 12)
    /\ \A ma \in {13, 17}, mi \in 0..6, pa \in 0..(MaxRulePatch + 1) :
          (op = "isNextVersionVulnerable" /\ args = <<StableStr(ma, mi, pa)>>) =>
            ~ret.vulnerable

\* 15.4.7 is vulnerable, 15.4.8 is what is recommended for it
C18_Witness ==
    /\ op = "isNextVersionVulnerable"
    /\ args = <<StableStr(15, 4, 7)>>
    /\ ret.vulnerable

\* C19: 14.3.0-canary.N with N >= 77 is vulnerable and the recommendation is
\* a downgrade to 14.3.0-canary.76, with 15.0.5 as the alternative; stable
\* 14.x versions and 14.x canaries before canary.77 are not vulnerable.
C19_Canary14 ==
    /\ \A n \in {x \in CanaryNumbers : x >= 77} :
          args = <<CanaryStr(14, 3, 0, n)>> =>
            /\ op = "isNextVersionVulnerable" => ret.vulnerable
            /\ op = "getNextPatchedVersion" =>
                  /\ ret.recommended = CanaryStr(14, 3, 0, 76)
                  /\ ret.alternative = StableStr(15, 0, 5)
    /\ \A n \in {x \in CanaryNumbers : x < 77} :
          (op = "isNextVersionVulnerable" /\ args = <<CanaryStr(14, 3, 0, n)>>) =>
            ~ret.vulnerable
    /\ \A mi \in 0..6, pa \in 0..(MaxRulePatch + 1) :
          (op = "isNextVersionVulnerable" /\ args = <<StableStr(14, mi, pa)>>) =>
            ~ret.vulnerable

(***************************************************************************)
(* lib/vulnerabilities/index.js and lib/index.js: the registry and the     *)
(* resolver analyzePackageJson.                                            *)
(*                                                                         *)
(* A manifest block (dependencies, devDependencies) is a function from the *)
(* watched packages to the declared specifier: UNDEFINED for a package     *)
(* that is not a key of the block, NULL for a key whose value is null.     *)
(***************************************************************************)
\* the packages CVE-2025-55182 applies to
REACT_PACKAGES_55182 == <<"react", "react-dom">> \o REACT_RSC_PACKAGES

\* the packages of advisory i of the registry
AdvisoryPackages(i) ==
    IF i = 4 THEN REACT_PACKAGES_55182
    ELSE IF i = 5 THEN REACT_RSC_PACKAGES
    ELSE <<"next">> \o REACT_RSC_PACKAGES

\* the description of each advisory.  The texts are in the advisory modules;
\* the comments of the registry stand for them.
RegistryDescriptions ==
    <<<<"R", "e", "a", "c", "t", "2", "S", "h", "e", "l", "l", ":", " ", "R",
        "C", "E", " ", "i", "n", " ", "N", "e", "x", "t", ".", "j", "s", " ",
        "A", "p", "p", " ", "R", "o", "u", "t", "e", "r">>,
      <<"D", "o", "S", ":", " ", "I", "n", "f", "i", "n", "i", "t", "e", " ",
        "l", "o", "o", "p", "s", " ", "i", "n", " ", "R", "e", "a", "c", "t",
        " ", "S", "e", "r", "v", "e", "r", " ", "C", "o", "m", "p", "o", "n",
        "e", "n", "t", "s">>,
      <<"S", "o", "u", "r", "c", "e", " ", "C", "o", "d", "e", " ", "E", "x",
        "p", "o", "s", "u", "r", "e", ":", " ", "S", "e", "r", "v", "e", "r",
        " ", "F", "u", "n", "c", "t", "i", "o", "n", "s", " ", "l", "e", "a",
        "k", " ", "s", "o", "u", "r", "c", "e">>,
      <<"R", "C", "E", ":", " ", "U", "n", "s", "a", "f", "e", " ", "d", "e",
        "s", "e", "r", "i", "a", "l", "i", "z", "a", "t", "i", "o", "n", " ",
        "i", "n", " ", "R", "e", "a", "c", "t", " ", "S", "e", "r", "v", "e",
        "r", " ", "C", "o", "m", "p", "o", "n", "e", "n", "t", "s">>,
      <<"D", "o", "S", " ", "F", "o", "l", "l", "o", "w", "-", "u", "p", ":",
        " ", "I", "n", "c", "o", "m", "p", "l", "e", "t", "e", " ", "f", "i",
        "x", " ", "f", "o", "r", " ", "C", "V", "E", "-", "2", "0", "2", "5",
        "-", "5", "5", "1", "8", "4">> >>

\* the advisories of the registry, in its order
vulnerabilities ==
    [i \in 1..Len(RegistryIds) |->
        [id |-> RegistryIds[i], severity |-> RegistrySeverities[i],
         description |-> RegistryDescriptions[i],
         packages |-> AdvisoryPackages(i)]]

RECURSIVE AddPackages(_, _)
\* packages.add(pkg) for every pkg of a list, in its order
AddPackages(packages, list) ==
    IF packages = <<>> THEN list
    ELSE AddPackages(Tail(packages),
             IF \E i \in 1..Len(list) : list[i] = Head(packages)
             THEN list ELSE Append(list, Head(packages)))

RECURSIVE AllPackagesFrom(_, _)
AllPackagesFrom(vulns, list) ==
    IF vulns = <<>> THEN list
    ELSE AllPackagesFrom(Tail(vulns), AddPackages(Head(vulns).packages, list))

getAllPackages == AllPackagesFrom(vulnerabilities, <<>>)

\* the patched version of each release line of next for CVE-2025-55184 and
\* CVE-2025-55183
DOS_NEXT_PATCHED_VERSIONS(major, minor) ==
    CASE major = Num(15) /\ minor = Num(0) -> StableStr(15, 0, 6)
      [] major = Num(15) /\ minor = Num(1) -> StableStr(15, 1, 10)
      [] major = Num(15) /\ minor = Num(2) -> StableStr(15, 2, 7)
      [] major = Num(15) /\ minor = Num(3) -> StableStr(15, 3, 7)
      [] major = Num(15) /\ minor = Num(4) -> StableStr(15, 4, 9)
      [] major = Num(15) /\ minor = Num(5) -> StableStr(15, 5, 8)
      [] major = Num(16) /\ minor = Num(0) -> StableStr(16, 0, 9)
      [] OTHER -> NULL

DOS_NEXT_CANARY_PATCHES(major) ==
    CASE major = Num(15) -> CanaryStr(15, 6, 0, 59)
      [] major = Num(16) -> CanaryStr(16, 1, 0, 18)
      [] OTHER -> NULL

\* the patched version of next 13.3+ and 14.x for CVE-2025-55184
DOS_NEXT_14_PATCHED == StableStr(14, 2, 34)

\* the patched version of each line of the react-server-dom packages for
\* CVE-2025-55184 and CVE-2025-55183
DOS_RSC_PATCHES(major, minor) ==
    CASE major = Num(19) /\ minor = Num(0) -> StableStr(19, 0, 2)
      [] major = Num(19) /\ minor = Num(1) -> StableStr(19, 1, 3)
      [] major = Num(19) /\ minor = Num(2) -> StableStr(19, 2, 2)
      [] OTHER -> NULL

\* the same for CVE-2025-67779, the fix that completes CVE-2025-55184
DOS_FOLLOWUP_RSC_PATCHES(major, minor) ==
    CASE major = Num(19) /\ minor = Num(0) -> StableStr(19, 0, 3)
      [] major = Num(19) /\ minor = Num(1) -> StableStr(19, 1, 4)
      [] major = Num(19) /\ minor = Num(2) -> StableStr(19, 2, 3)
      [] OTHER -> NULL

\* the version advisory id recommends for a parsed version of packageName:
\* the patched version of its line, null for a line the advisory does not list
LinePatch(id, packageName, parsed) ==
    IF parsed = NullVersion THEN NULL
    ELSE IF packageName = "next" THEN
        IF id = RegistryIds[5] THEN NULL
        ELSE IF parsed.major = Num(14)
                \/ (parsed.major = Num(13) /\ ~Less(parsed.minor, Num(3)))
             THEN (IF id = RegistryIds[2] THEN DOS_NEXT_14_PATCHED ELSE NULL)
        ELSE IF parsed.isCanary THEN DOS_NEXT_CANARY_PATCHES(parsed.major)
        ELSE DOS_NEXT_PATCHED_VERSIONS(parsed.major, parsed.minor)
    ELSE IF id = RegistryIds[5]
         THEN DOS_FOLLOWUP_RSC_PATCHES(parsed.major, parsed.minor)
    ELSE DOS_RSC_PATCHES(parsed.major, parsed.minor)

\* a version is flagged when it is below the patched version of its line
LineVerdict(parsed, patched) ==
    IF patched # NULL /\ Sign(compareVersions(parsed.raw, patched)) < 0
    THEN Verdict(TRUE, <<"below-patched">>)
    ELSE Verdict(FALSE, <<"not-affected">>)

\* vuln.isVulnerable(packageName, version)
isVulnerable(vuln, packageName, version) ==
    IF vuln.id = RegistryIds[1] THEN
        IF packageName = "next" THEN isNextVersionVulnerable(version)
        ELSE Verdict(isReactRscVersionVulnerable(version), <<"react-rsc">>)
    ELSE IF vuln.id = RegistryIds[4] THEN
        Verdict(REACT_RSC_PATCHES(cleanVersion(version)) # NULL, <<"react">>)
    ELSE Only({LineVerdict(parsed, LinePatch(vuln.id, packageName, parsed)) :
               parsed \in {parseVersion(version)}})

\* vuln.getPatchedVersion(packageName, version)
getPatchedVersion(vuln, packageName, version) ==
    IF vuln.id = RegistryIds[1] THEN
        IF packageName = "next" THEN getNextPatchedVersion(version)
        ELSE IF getReactRscPatchedVersion(version) = NULL THEN NoPatch
        ELSE Patch(getReactRscPatchedVersion(version), NULL, NULL)
    ELSE Only({IF recommended = NULL THEN NoPatch
               ELSE Patch(recommended, NULL, NULL) :
               recommended \in
                 {IF vuln.id = RegistryIds[4]
                  THEN REACT_RSC_PATCHES(cleanVersion(version))
                  ELSE LinePatch(vuln.id, packageName, parseVersion(version))}})

\* the version the package manager reports, else the one in node_modules
getInstalledVersion(pm, nm, packageName) ==
    IF Truthy(pm[packageName]) THEN pm[packageName] ELSE nm[packageName]

\* { ...pkg.dependencies, ...pkg.devDependencies }[packageName]: a key of
\* devDependencies overrides the one of dependencies, whatever its value
allDeps(d, dd, packageName) ==
    IF dd[packageName] # UNDEFINED THEN dd[packageName] ELSE d[packageName]

\* the installed version is looked up for specifiers that do not parse only
shouldCheckInstalledUnparseableOnly(version) ==
    \/ isUnparseableVersionSpec(version)
    \/ parseVersion(version) = NullVersion

shouldCheckInstalled(version) ==
    \/ isUnparseableVersionSpec(version)
    \/ parseVersion(version) = NullVersion
    \/ hasRangeSpecifier(version)

\* `${version} (installed: ${installedVersion})`
DisplayInstalled(version, installedVersion) ==
    version
    \o <<" ", "(", "i", "n", "s", "t", "a", "l", "l", "e", "d", ":", " ">>
    \o installedVersion \o <<")">>

RECURSIVE affectedCvesFrom(_, _, _)
\* the loop over the registry: one entry per advisory that flags the version
affectedCvesFrom(vulns, packageName, version) ==
    IF vulns = <<>> THEN <<>>
    ELSE (IF (\E i \in 1..Len(Head(vulns).packages) :
                 Head(vulns).packages[i] = packageName)
             /\ isVulnerable(Head(vulns), packageName, version).vulnerable
          THEN Only({<<[id |-> Head(vulns).id,
                        severity |-> Head(vulns).severity,
                        patchedVersion |-> IF Truthy(patch.recommended)
                                           THEN patch.recommended ELSE NULL,
                        alternative |-> IF Truthy(patch.alternative)
                                        THEN patch.alternative ELSE NULL,
                        note |-> IF Truthy(patch.note) THEN patch.note ELSE NULL]>> :
                     patch \in {getPatchedVersion(Head(vulns), packageName, version)}})
          ELSE <<>>)
         \o affectedCvesFrom(Tail(vulns), packageName, version)

UnknownNote ==
    <<"Could not determine installed version - run \"npm install\" first, or pin to a safe version">>

UnknownCve ==
    [id |-> "UNKNOWN", severity |-> "unknown", patchedVersion |-> StableStr(15, 5, 8),
     alternative |-> NULL, note |-> NULL]

\* what one package adds to vulnerablePackages, given the declared specifier,
\* the installed version found (or null) and the matched advisories
FindingsOf(d, dd, packageName, declared, installedVersion, affectedCves) ==
    IF Len(affectedCves) = 0 /\ isUnparseableVersionSpec(declared)
       /\ ~Truthy(installedVersion)
    THEN <<[package |-> packageName,
            current |-> declared,
            cves |-> <<UnknownCve>>,
            patched |-> StableStr(15, 5, 8),
            note |-> UnknownNote,
            inDeps |-> Truthy(d[packageName]),
            inDevDeps |-> Truthy(dd[packageName])]>>
    ELSE IF Len(affectedCves) > 0
    THEN <<[package |-> packageName,
            current |-> IF Truthy(installedVersion)
                        THEN DisplayInstalled(declared, installedVersion)
                        ELSE declared,
            cves |-> affectedCves,
            patched |-> NULL,
            note |-> NULL,
            inDeps |-> Truthy(d[packageName]),
            inDevDeps |-> Truthy(dd[packageName])]>>
    ELSE <<>>

\* the installed version analyzePackageJson holds for a declared specifier
InstalledFor(pm, nm, packageName, declared) ==
    IF shouldCheckInstalled(declared)
    THEN getInstalledVersion(pm, nm, packageName)
    ELSE NULL

\* the version the advisories are evaluated against
VersionFor(declared, installedVersion) ==
    IF Truthy(installedVersion) THEN installedVersion ELSE declared

\* one turn of the loop over packagesToCheck
AnalyzePackage(d, dd, pm, nm, packageName) ==
    IF ~Truthy(allDeps(d, dd, packageName)) THEN <<>>
    ELSE Only({Only({FindingsOf(d, dd, packageName, declared, installedVersion,
                         affectedCvesFrom(vulnerabilities, packageName,
                             VersionFor(declared, installedVersion))) :
                     installedVersion \in {InstalledFor(pm, nm, packageName, declared)}}) :
               declared \in {allDeps(d, dd, packageName)}})

RECURSIVE AnalyzePackages(_, _, _, _, _)
AnalyzePackages(d, dd, pm, nm, packagesToCheck) ==
    IF packagesToCheck = <<>> THEN <<>>
    ELSE AnalyzePackage(d, dd, pm, nm, Head(packagesToCheck))
         \o AnalyzePackages(d, dd, pm, nm, Tail(packagesToCheck))

\* the package.json of the project
ManifestPath == <<"/", "a", "p", "p", "/", "p", "a", "c", "k", "a", "g", "e", ".", "j", "s", "o", "n">>

\* the place in packagesToCheck of the first package whose declared value
\* is truthy and no string, one past the last place when there is none:
\* version.replace is no function for it
RaisingPlace(d, dd) ==
    IF \E i \in 1..Len(getAllPackages) : allDeps(d, dd, getAllPackages[i]) \in NonStrings
    THEN CHOOSE i \in 1..Len(getAllPackages) :
            /\ allDeps(d, dd, getAllPackages[i]) \in NonStrings
            /\ \A j \in 1..(i - 1) : allDeps(d, dd, getAllPackages[j]) \notin NonStrings
    ELSE Len(getAllPackages) + 1

\* analyzePackageJson raises
Raises(pkg, d, dd) == pkg.null \/ RaisingPlace(d, dd) <= Len(getAllPackages)

\* analyzePackageJson(pkgPath) for a package.json that is read and parsed
\* to pkg with the blocks d and dd, with the versions pm and nm found
\* installed.  It raises a TypeError when pkg is null, whose dependencies
\* cannot be read, and when the loop comes to a declared value that is
\* truthy and no string.
analyzePackageJson(pkgPath, pkg, d, dd, pm, nm) ==
    IF Raises(pkg, d, dd) THEN Raised
    ELSE [path |-> pkgPath,
          name |-> IF Truthy(pkg.name) THEN pkg.name
                   ELSE basename(dirname(pkgPath)),
          vulnerabilities |-> AnalyzePackages(d, dd, pm, nm, getAllPackages)]

RECURSIVE applyFixes(_, _, _)
\* the loop over the fixes of one file: the blocks after it, and modified
applyFixes(d, dd, fixes) ==
    IF fixes = <<>> THEN [deps |-> d, devDeps |-> dd, modified |-> FALSE]
    ELSE LET fix == Head(fixes)
             inD == Truthy(fix.patched) /\ fix.inDeps /\ Truthy(d[fix.package])
             inDD == Truthy(fix.patched) /\ fix.inDevDeps /\ Truthy(dd[fix.package])
         IN  Only({[r EXCEPT !.modified = @ \/ inD \/ inDD] :
                   r \in {applyFixes(
                            IF inD THEN [d EXCEPT ![fix.package] = fix.patched] ELSE d,
                            IF inDD THEN [dd EXCEPT ![fix.package] = fix.patched] ELSE dd,
                            Tail(fixes))}})

(***************************************************************************)
(* One run of the tool on a project with one package.json: run() analyses  *)
(* the manifest, plans the fixes and, when they are to be applied, writes  *)
(* them and runs the install command; the manifest is then analysed again. *)
(***************************************************************************)
Packages == {getAllPackages[i] : i \in 1..Len(getAllPackages)}

Latest == <<"l", "a", "t", "e", "s", "t">>

WorkspaceAny == <<"w", "o", "r", "k", "s", "p", "a", "c", "e", ":", "*">>

\* declared specifiers of next
NextSpecifiers ==
    {StableStr(15, 3, 0), <<"^">> \o StableStr(15, 3, 0), StableStr(15, 3, 6),
     <<"=">> \o StableStr(15, 0, 0), <<"~">> \o StableStr(16, 0, 0),
     StableStr(16, 0, 6), StableStr(13, 5, 0), StableStr(15, 3, 7),
     StableStr(14, 2, 0),
     CanaryStr(14, 3, 0, 76), CanaryStr(14, 3, 0, 77), CanaryStr(14, 3, 0, 80),
     CanaryStr(15, 6, 0, 10), RcStr(15, 3, 0, 1),
     Latest, WorkspaceAny, <<"1", "4", ".", "x">>, <<"1", "5", ".", "x">>,
     <<>>}

\* declared specifiers of react-server-dom-webpack
RscSpecifiers ==
    {StableStr(19, 1, 0), <<"^">> \o StableStr(19, 0, 0), StableStr(19, 1, 2),
     StableStr(19, 1, 4), Latest}

\* declared specifiers of next with code units outside ASCII: a vertical tab
\* before a version, a zero-width space (no white space) after one, and
\* workspace:* written with the Kelvin sign
WideSpecifiers ==
    {<<CodeUnit(11)>> \o StableStr(15, 3, 0),
     StableStr(15, 3, 0) \o <<CodeUnit(8203)>>,
     <<"W", "O", "R", CodeUnit(8490), "S", "P", "A", "C", "E", ":", "*">>}

\* versions the package manager reports, and versions found in node_modules
NextReported == {NULL, StableStr(15, 3, 4), CanaryStr(14, 3, 0, 80)}

NextInNodeModules == {NULL, StableStr(15, 3, 7), StableStr(15, 0, 1)}

RscInNodeModules == {NULL, StableStr(19, 0, 0), StableStr(19, 0, 1)}

\* the versions found of next and react-server-dom-webpack, null for the
\* packages that are not installed
Block(next, rsc) ==
    [p \in Packages |->
        IF p = "next" THEN next
        ELSE IF p = "react-server-dom-webpack" THEN rsc
        ELSE NULL]

\* a block of a manifest with the given specifiers of next and
\* react-server-dom-webpack and no other key
ManifestBlock(next, rsc) ==
    [p \in Packages |->
        IF p = "next" THEN next
        ELSE IF p = "react-server-dom-webpack" THEN rsc
        ELSE UNDEFINED]

NoBlock == ManifestBlock(UNDEFINED, UNDEFINED)

\* next in dependencies, in devDependencies, in both, in dependencies with
\* an empty specifier or null in devDependencies, and react in dependencies
Manifests ==
    {<<ManifestBlock(n, r), NoBlock>> :
        n \in NextSpecifiers \cup {UNDEFINED}, r \in RscSpecifiers \cup {UNDEFINED}}
    \cup {<<ManifestBlock(UNDEFINED, r), ManifestBlock(n, UNDEFINED)>> :
        n \in NextSpecifiers, r \in RscSpecifiers \cup {UNDEFINED}}
    \cup {<<ManifestBlock(n, r), ManifestBlock(n, UNDEFINED)>> :
        n \in NextSpecifiers, r \in RscSpecifiers \cup {UNDEFINED}}
    \cup {<<ManifestBlock(n, r), ManifestBlock(e, UNDEFINED)>> :
        n \in NextSpecifiers, r \in RscSpecifiers \cup {UNDEFINED},
        e \in {<<>>, NULL}}
    \cup {<<[ManifestBlock(n, UNDEFINED) EXCEPT !["react"] = v], NoBlock>> :
        n \in {UNDEFINED, StableStr(15, 3, 0)},
        v \in {StableStr(19, 0, 0), <<"^">> \o StableStr(19, 1, 0),
               StableStr(19, 0, 1)}}
    \cup {<<ManifestBlock(n, UNDEFINED), NoBlock>> : n \in WideSpecifiers}

\* a declared value that is no string: of next, of
\* react-server-dom-webpack, and in devDependencies over a version in
\* dependencies
NoStringManifests ==
    {<<ManifestBlock(v, r), NoBlock>> : v \in NonStrings, r \in {UNDEFINED, Latest}}
    \cup {<<ManifestBlock(n, v), NoBlock>> : n \in {UNDEFINED, Latest}, v \in NonStrings}
    \cup {<<ManifestBlock(StableStr(15, 3, 0), UNDEFINED),
            ManifestBlock(v, UNDEFINED)>> : v \in NonStrings}

\* the values of name in package.json: none, null, the empty string and a
\* name
ManifestNames == {UNDEFINED, NULL, <<>>, <<"m", "y", "-", "a", "p", "p">>}

\* the manifests that come with each of the names; the others have none
NamedManifests ==
    {<<ManifestBlock(n, UNDEFINED), NoBlock>> :
        n \in {UNDEFINED, StableStr(15, 3, 0), Latest}}

\* what analyzePackageJson returns for a manifest it cannot read
NoAnalysis == [null |-> TRUE, vulnerabilities |-> <<>>]

Init ==
    /\ op = "none" /\ args = <<>> /\ ret = <<>>
    /\ pc = "start"
    /\ manifestOk \in BOOLEAN
    /\ \/ \E m \in Manifests \cup NoStringManifests :
            /\ deps = m[1]
            /\ devDeps = m[2]
            /\ \E n \in IF m \in NamedManifests THEN ManifestNames ELSE {UNDEFINED} :
                  pkgJson = Pkg(n)
       \/ deps = NoBlock /\ devDeps = NoBlock /\ pkgJson = JsonNullPkg
    /\ \E pm \in NextReported : pmVersion = Block(pm, NULL)
    /\ \E nm \in NextInNodeModules, rnm \in RscInNodeModules :
        nmVersion = Block(nm, rnm)
    /\ ~manifestOk =>
        /\ deps = NoBlock
        /\ pkgJson = Pkg(UNDEFINED)
        /\ pmVersion = Block(NULL, NULL)
        /\ nmVersion = Block(NULL, NULL)
    /\ lookups = {} /\ evaluated = {}
    /\ analysis = <<>> /\ minimalFixes = <<>> /\ analysisAfter = <<>>

\* the packages of the manifest that are analysed
Declared(d, dd) == {p \in Packages : Truthy(allDeps(d, dd, p))}

\* the declared packages the loop over packagesToCheck comes to before
\* analyzePackageJson returns or raises
Checked(pkg, d, dd) ==
    IF pkg.null THEN {}
    ELSE {p \in Declared(d, dd) :
            \E i \in 1..(RaisingPlace(d, dd) - 1) : getAllPackages[i] = p}

\* the packages analyzePackageJson calls getInstalledVersion for
LookedUp(pkg, d, dd) ==
    {p \in Checked(pkg, d, dd) : shouldCheckInstalled(allDeps(d, dd, p))}

\* the (package, version) pairs it hands to isVulnerable
Evaluated(pkg, d, dd, pm, nm) ==
    {<<p, VersionFor(allDeps(d, dd, p),
                     InstalledFor(pm, nm, p, allDeps(d, dd, p)))>> :
        p \in Checked(pkg, d, dd)}

\* analyzePackageJson as run() calls it, with the calls it makes; run()
\* ends when it raises
Analyze ==
    /\ pc = "start"
    /\ \E a \in {IF manifestOk
                  THEN analyzePackageJson(ManifestPath, pkgJson, deps, devDeps,
                                          pmVersion, nmVersion)
                  ELSE NoAnalysis} :
        /\ pc' = IF a = Raised THEN "raised" ELSE "analyzed"
        /\ analysis' = IF a = Raised THEN analysis
                       ELSE IF manifestOk THEN [null |-> FALSE] @@ a
                       ELSE a
    /\ lookups' = IF manifestOk THEN LookedUp(pkgJson, deps, devDeps) ELSE {}
    /\ evaluated' = IF manifestOk
                    THEN Evaluated(pkgJson, deps, devDeps, pmVersion, nmVersion)
                    ELSE {}
    /\ UNCHANGED <<op, args, ret, manifestOk, pkgJson, deps, devDeps, pmVersion, nmVersion,
                   minimalFixes, analysisAfter>>

\* allAnalysis of run(): the analyses that have findings
AllAnalysis(a) ==
    IF ~a.null /\ Len(a.vulnerabilities) > 0 THEN <<a>> ELSE <<>>

Plan ==
    /\ pc = "analyzed"
    /\ pc' = "planned"
    /\ minimalFixes' = computeMinimalFixes(AllAnalysis(analysis))
    /\ UNCHANGED <<op, args, ret, manifestOk, pkgJson, deps, devDeps, pmVersion, nmVersion,
                   lookups, evaluated, analysis, analysisAfter>>

\* run() returns without writing: JSON output, nothing to fix, a dry run, or
\* the fix is not confirmed
Finish ==
    /\ pc = "planned"
    /\ pc' = "done"
    /\ UNCHANGED <<op, args, ret, manifestOk, pkgJson, deps, devDeps, pmVersion, nmVersion,
                   lookups, evaluated, analysis, minimalFixes, analysisAfter>>

\* run() applies the fixes of the file, and returns if it was not modified
ApplyFixes ==
    /\ pc = "planned"
    /\ minimalFixes # <<>>
    /\ \E r \in {applyFixes(deps, devDeps, minimalFixes[1].fixes)} :
        /\ pc' = IF r.modified THEN "applied" ELSE "done"
        /\ deps' = r.deps
        /\ devDeps' = r.devDeps
    /\ UNCHANGED <<op, args, ret, manifestOk, pkgJson, pmVersion, nmVersion,
                   lookups, evaluated, analysis, minimalFixes, analysisAfter>>

\* the fix of the fixes given that pins package p, none when no fix does
PinOf(fixes, p) ==
    {i \in 1..Len(fixes) : fixes[i].package = p /\ Truthy(fixes[i].patched)}

\* the versions found after an install command that succeeded: a package
\* that a fix pinned is found at the pinned version, where a version was
\* found before or the place is node_modules
AfterInstall(found, fixes, inNodeModules) ==
    [p \in Packages |->
        IF PinOf(fixes, p) # {} /\ (inNodeModules \/ Truthy(found[p]))
        THEN fixes[Maximum(PinOf(fixes, p))].patched
        ELSE found[p]]

\* runInstall after the write.  The command is not part of the tool: when
\* it succeeds and installs, the pinned versions are the installed ones;
\* when it fails, or updates the lock file only, what is installed stays.
Install ==
    /\ pc = "applied"
    /\ pc' = "installed"
    /\ \E installs \in BOOLEAN :
        /\ pmVersion' = IF installs
                        THEN AfterInstall(pmVersion, minimalFixes[1].fixes, FALSE)
                        ELSE pmVersion
        /\ nmVersion' = IF installs
                        THEN AfterInstall(nmVersion, minimalFixes[1].fixes, TRUE)
                        ELSE nmVersion
    /\ UNCHANGED <<op, args, ret, manifestOk, pkgJson, deps, devDeps,
                   lookups, evaluated, analysis, minimalFixes, analysisAfter>>

\* the manifest is analysed again after the run
Reanalyze ==
    /\ pc \in {"installed", "done"}
    /\ Len(analysis.vulnerabilities) > 0
    /\ pc' = IF pc = "installed" THEN "rechecked-fixed" ELSE "rechecked"
    /\ analysisAfter' = [null |-> FALSE]
                        @@ analyzePackageJson(ManifestPath, pkgJson, deps, devDeps,
                                              pmVersion, nmVersion)
    /\ UNCHANGED <<op, args, ret, manifestOk, pkgJson, deps, devDeps, pmVersion, nmVersion,
                   lookups, evaluated, analysis, minimalFixes>>

Next ==
    \/ Analyze
    \/ Plan
    \/ Finish
    \/ ApplyFixes
    \/ Install
    \/ Reanalyze

Spec == Init /\ [][Next]_vars

(***************************************************************************)
(* Properties of the run.                                                  *)
(***************************************************************************)
\* the findings of an analysis that are about package p
FindingSet(a, p) ==
    {a.vulnerabilities[i] : i \in {j \in 1..Len(a.vulnerabilities) :
                                      a.vulnerabilities[j].package = p}}

\* some advisory of the registry that applies to p flags version v
Flagged(p, v) == affectedCvesFrom(vulnerabilities, p, v) # <<>>

\* no version of p is found installed
NotInstalled(p) == ~Truthy(pmVersion[p]) /\ ~Truthy(nmVersion[p])

\* C2: for every package version that an advisory flags, the version planned as
\* the target of the fix is not flagged by any advisory of the registry that
\* applies to the package, and the analysis made after the fix is applied has
\* no finding left.
C2_TargetNotFlagged ==
    /\ pc = "planned" =>
          \A i \in 1..Len(minimalFixes) :
            \A j \in 1..Len(minimalFixes[i].fixes) :
              LET fix == minimalFixes[i].fixes[j]
              IN  fix.cves # <<"UNKNOWN">> =>
                    /\ Truthy(fix.patched)
                    /\ ~Flagged(fix.package, fix.patched)
    /\ pc = "rechecked-fixed" => analysisAfter.vulnerabilities = <<>>

\* the declared specifiers of the runs that are unparseable tokens: a
\* dist-tag and a workspace: specifier, in lower case and in upper case
\* with the Kelvin sign for K
UnparseableSpecifiers ==
    {Latest, WorkspaceAny,
     <<"W", "O", "R", CodeUnit(8490), "S", "P", "A", "C", "E", ":", "*">>}

\* C5: a watched package whose declared specifier is unparseable and that is
\* not found installed always has a finding; no advisory matching, it is one
\* entry with id UNKNOWN, severity unknown and a recommended version, with a
\* note.  No other package has an UNKNOWN entry: a specifier such as 14.x
\* that is not found installed has a finding only if an advisory flags it.
C5_UnknownFinding ==
    (pc = "analyzed" /\ manifestOk) =>
      \A p \in Packages :
        LET declared == allDeps(deps, devDeps, p)
            found == FindingSet(analysis, p)
            unknown == declared \in UnparseableSpecifiers /\ NotInstalled(p)
        IN  /\ unknown =>
                  /\ Cardinality(found) = 1
                  /\ \A f \in found :
                        /\ Len(f.cves) = 1
                        /\ f.cves[1].id = "UNKNOWN"
                        /\ f.cves[1].severity = "unknown"
                        /\ Truthy(f.cves[1].patchedVersion)
                        /\ Truthy(f.patched)
                        /\ Truthy(f.note)
                        /\ f.current = declared
            /\ ~unknown =>
                  \A f \in found :
                    /\ \A i \in 1..Len(f.cves) : f.cves[i].id # "UNKNOWN"
                    /\ Len(f.cves) > 0
            /\ (Truthy(declared) /\ ~unknown /\ NotInstalled(p)) =>
                  (found # {} <=> Flagged(p, declared))

C5_Witness ==
    /\ pc = "analyzed"
    /\ deps["next"] = Latest
    /\ devDeps["next"] = UNDEFINED
    /\ NotInstalled("next")
    /\ \E f \in FindingSet(analysis, "next") :
          f.cves = <<UnknownCve>> /\ f.note = UnknownNote

\* the declared specifiers of the runs that are exact pins: versions of the
\* three forms, and one with a vertical tab before it
ExactPins ==
    {StableStr(15, 3, 0), <<CodeUnit(11)>> \o StableStr(15, 3, 0), StableStr(15, 3, 6), StableStr(16, 0, 6),
     StableStr(13, 5, 0), CanaryStr(14, 3, 0, 76), CanaryStr(14, 3, 0, 77),
     CanaryStr(14, 3, 0, 80), CanaryStr(15, 6, 0, 10), RcStr(15, 3, 0, 1),
     StableStr(19, 1, 0), StableStr(19, 1, 2), StableStr(15, 3, 7),
     StableStr(14, 2, 0), StableStr(19, 1, 4), StableStr(19, 0, 0),
     StableStr(19, 0, 1)}

\* C6: the installed version of a declared package is looked up if and only
\* if its specifier is unparseable or is not an exact pin; when a version is
\* found the advisories are evaluated against it and the finding shows
\* 'declared (installed: X)'; for an exact pin there is no lookup and the
\* advisories are evaluated against the declared version.
C6_InstalledLookup ==
    (pc = "analyzed" /\ manifestOk) =>
      \A p \in Packages :
        LET declared == allDeps(deps, devDeps, p)
            installed == IF Truthy(pmVersion[p]) THEN pmVersion[p] ELSE nmVersion[p]
            found == FindingSet(analysis, p)
        IN  /\ p \in lookups <=>
                  /\ Truthy(declared)
                  /\ declared \in UnparseableSpecifiers \/ declared \notin ExactPins
            /\ (p \in lookups /\ Truthy(installed)) =>
                  /\ <<p, installed>> \in evaluated
                  /\ found # {} <=> Flagged(p, installed)
                  /\ \A f \in found :
                        f.current = declared
                            \o <<" ", "(", "i", "n", "s", "t", "a", "l", "l",
                                  "e", "d", ":", " ">>
                            \o installed \o <<")">>
            /\ (Truthy(declared) /\ declared \in ExactPins) =>
                  /\ <<p, declared>> \in evaluated
                  /\ found # {} <=> Flagged(p, declared)
                  /\ \A f \in found : f.current = declared

C6_Witness ==
    /\ pc = "analyzed"
    /\ deps["next"] = <<"^">> \o StableStr(15, 3, 0)
    /\ devDeps["next"] = UNDEFINED
    /\ pmVersion["next"] = StableStr(15, 3, 4)
    /\ "next" \in lookups
    /\ <<"next", StableStr(15, 3, 4)>> \in evaluated
    /\ \E f \in FindingSet(analysis, "next") :
          f.current = DisplayInstalled(deps["next"], StableStr(15, 3, 4))

\* obj.originalSpecifier: undefined for an object that has no such property
OriginalSpecifier(obj) ==
    IF "originalSpecifier" \in DOMAIN obj THEN obj.originalSpecifier ELSE UNDEFINED

\* C20: every finding of analyzePackageJson has the declared specifier of its
\* package, verbatim, as originalSpecifier, also when the installed version
\* was evaluated, and the Fix computed for the finding has the same
\* originalSpecifier.
C20_OriginalSpecifier ==
    /\ (pc = "analyzed" /\ manifestOk) =>
          \A i \in 1..Len(analysis.vulnerabilities) :
            OriginalSpecifier(analysis.vulnerabilities[i])
                = allDeps(deps, devDeps, analysis.vulnerabilities[i].package)
    /\ (pc = "planned" /\ manifestOk) =>
          \A k \in 1..Len(minimalFixes) : \A i \in 1..Len(minimalFixes[k].fixes) :
            OriginalSpecifier(minimalFixes[k].fixes[i])
                = allDeps(deps, devDeps, minimalFixes[k].fixes[i].package)

(***************************************************************************)
(* lib/utils/lockfile-scanner.js: the analysis of the entries of a lock    *)
(* file.  Package names of lock file entries are sequences of characters,  *)
(* as the versions are.                                                    *)
(***************************************************************************)
MaxEntries == 3     \* entries of an analysed lock file

REACT_PACKAGES ==
    <<<<"r", "e", "a", "c", "t">>,
      <<"r", "e", "a", "c", "t", "-", "d", "o", "m">>,
      <<"r", "e", "a", "c", "t", "-", "s", "e", "r", "v", "e", "r", "-", "d", "o", "m", "-", "w", "e", "b", "p", "a", "c", "k">>,
      <<"r", "e", "a", "c", "t", "-", "s", "e", "r", "v", "e", "r", "-", "d", "o", "m", "-", "p", "a", "r", "c", "e", "l">>,
      <<"r", "e", "a", "c", "t", "-", "s", "e", "r", "v", "e", "r", "-", "d", "o", "m", "-", "t", "u", "r", "b", "o", "p", "a", "c", "k">>>>

\* the name of a package as the registry writes it
PackageNamed(name) ==
    CASE name = REACT_PACKAGES[1] -> "react"
      [] name = REACT_PACKAGES[2] -> "react-dom"
      [] name = REACT_PACKAGES[3] -> "react-server-dom-webpack"
      [] name = REACT_PACKAGES[4] -> "react-server-dom-parcel"
      [] name = REACT_PACKAGES[5] -> "react-server-dom-turbopack"
      [] name = <<"n", "e", "x", "t">> -> "next"
      [] OTHER -> "other"

RECURSIVE CheckFrom(_, _, _)
\* the loop of checkPackageVulnerability over the registry
CheckFrom(vulns, packageName, version) ==
    IF vulns = <<>> THEN <<>>
    ELSE (IF (\E i \in 1..Len(Head(vulns).packages) :
                 Head(vulns).packages[i] = packageName)
             /\ isVulnerable(Head(vulns), packageName, version).vulnerable
          THEN Only({<<[id |-> Head(vulns).id,
                        severity |-> Head(vulns).severity,
                        description |-> Head(vulns).description,
                        patchedVersion |-> IF Truthy(patch.recommended)
                                           THEN patch.recommended ELSE NULL,
                        alternative |-> IF Truthy(patch.alternative)
                                        THEN patch.alternative ELSE NULL,
                        note |-> IF Truthy(patch.note) THEN patch.note ELSE NULL]>> :
                     patch \in {getPatchedVersion(Head(vulns), packageName, version)}})
          ELSE <<>>)
         \o CheckFrom(Tail(vulns), packageName, version)

checkPackageVulnerability(packageName, version) ==
    CheckFrom(vulnerabilities, PackageNamed(packageName), version)

\* current is above highest in major, minor or patch
HigherRelease(current, highest) ==
    \/ Less(highest.major, current.major)
    \/ current.major = highest.major /\ Less(highest.minor, current.minor)
    \/ current.major = highest.major /\ current.minor = highest.minor
       /\ Less(highest.patch, current.patch)

\* the patched version kept after one advisory of the loop
LockfileHighestStep(patchedVersion, highestVersion) ==
    IF ~Truthy(patchedVersion) THEN highestVersion
    ELSE IF ~Truthy(highestVersion) THEN patchedVersion
    ELSE Only({IF current # NullVersion /\ highest # NullVersion
                  /\ HigherRelease(current, highest)
               THEN patchedVersion ELSE highestVersion :
               current \in {parseVersion(patchedVersion)},
               highest \in {parseVersion(highestVersion)}})

RECURSIVE LockfileHighestFrom(_, _)
\* the loop of analyzeLockfile over the matched advisories of one package
LockfileHighestFrom(cves, highestVersion) ==
    IF cves = <<>> THEN highestVersion
    ELSE Only({LockfileHighestFrom(Tail(cves), next) :
               next \in {LockfileHighestStep(Head(cves).patchedVersion,
                                             highestVersion)}})

\* a key that also holds where the entry was resolved from
LockfileKeyWithOrigin(pkg) ==
    pkg.name \o <<"@">> \o pkg.version \o <<"@">> \o pkg.resolved

\* `${pkg.name}@${pkg.version}`
LockfileKey(pkg) == pkg.name \o <<"@">> \o pkg.version

\* the finding pushed for an entry with matched advisories
LockfileFinding(pkg, cves) ==
    [package |-> pkg.name,
     currentVersion |-> pkg.version,
     patchedVersion |-> LockfileHighestFrom(cves, NULL),
     cves |-> [i \in 1..Len(cves) |-> cves[i].id],
     severity |-> cves[1].severity,
     resolved |-> pkg.resolved]

RECURSIVE LockfileFindingsFrom(_, _, _)
\* the loop of analyzeLockfile over the entries; check[<<name, version>>] is
\* what checkPackageVulnerability answers, seen is seenPackages
LockfileFindingsFrom(packages, seen, check) ==
    IF packages = <<>> THEN <<>>
    ELSE IF LockfileKey(Head(packages)) \in seen
         THEN LockfileFindingsFrom(Tail(packages), seen, check)
    ELSE (IF Len(check[<<Head(packages).name, Head(packages).version>>]) > 0
          THEN <<LockfileFinding(Head(packages),
                     check[<<Head(packages).name, Head(packages).version>>])>>
          ELSE <<>>)
         \o LockfileFindingsFrom(Tail(packages),
                seen \cup {LockfileKey(Head(packages))}, check)

\* null where a lock file or an analysis is expected
NullLockfile == [null |-> TRUE]

\* !lockfileData || !lockfileData.packages: a lock file record without
\* packages has no such field
NoPackages(lockfileData) ==
    lockfileData = NullLockfile \/ "packages" \notin DOMAIN lockfileData

\* analyzeLockfile, given the answers of checkPackageVulnerability
analyzeLockfileWith(lockfileData, check) ==
    IF NoPackages(lockfileData) THEN NullLockfile
    ELSE Only({IF vulnerablePackages = <<>> THEN NullLockfile
               ELSE [lockfile |-> lockfileData.lockfile,
                     path |-> lockfileData.path,
                     vulnerabilities |-> vulnerablePackages] :
               vulnerablePackages \in
                   {LockfileFindingsFrom(lockfileData.packages, {}, check)}})

\* the answers of checkPackageVulnerability for the entries of a lock file
CheckOf(packages) ==
    [k \in {<<packages[i].name, packages[i].version>> : i \in 1..Len(packages)} |->
        checkPackageVulnerability(k[1], k[2])]

analyzeLockfile(lockfileData) ==
    IF NoPackages(lockfileData) THEN NullLockfile
    ELSE analyzeLockfileWith(lockfileData, CheckOf(lockfileData.packages))

(***************************************************************************)
(* Calls of analyzeLockfile.  args is <<lockfileData, check>>, check being *)
(* what checkPackageVulnerability answers for the entries.                 *)
(***************************************************************************)
ResolvedA == <<"https://registry.npmjs.org/a.tgz">>

ResolvedB == <<"https://registry.npmjs.org/b.tgz">>

LockfileEntry(name, version, resolved) ==
    [name |-> name, version |-> version, resolved |-> resolved]

NextName == <<"n", "e", "x", "t">>

\* entries given to analyzeLockfile: react and react-server-dom-webpack as a
\* parser produces them, and next, at flagged versions and at patched ones
LockfileEntries ==
    {LockfileEntry(REACT_PACKAGES[3], StableStr(19, 0, 0), NULL),
     LockfileEntry(REACT_PACKAGES[3], StableStr(19, 0, 0), ResolvedA),
     LockfileEntry(REACT_PACKAGES[3], StableStr(19, 0, 1), NULL),
     LockfileEntry(REACT_PACKAGES[3], StableStr(19, 0, 3), ResolvedA),
     LockfileEntry(REACT_PACKAGES[1], StableStr(19, 0, 0), NULL),
     LockfileEntry(REACT_PACKAGES[1], <<"1", "8", ".", "2", ".", "0">>, NULL),
     LockfileEntry(NextName, CanaryStr(15, 6, 0, 0), NULL),
     LockfileEntry(<<"r">>, <<"1", "@", "2">>, ResolvedA),
     LockfileEntry(<<"r", "@", "1">>, <<"2">>, ResolvedB)}

LockfileData(packages) ==
    [lockfile |-> <<"p", "a", "c", "k", "a", "g", "e", "-", "l", "o", "c", "k", ".", "j", "s", "o", "n">>,
     path |-> join(<<"/", "a", "p", "p">>, <<"p", "a", "c", "k", "a", "g", "e", "-", "l", "o", "c", "k", ".", "j", "s", "o", "n">>),
     packages |-> packages]

LockfileWithoutPackages ==
    [lockfile |-> <<"p", "a", "c", "k", "a", "g", "e", "-", "l", "o", "c", "k", ".", "j", "s", "o", "n">>,
     path |-> join(<<"/", "a", "p", "p">>, <<"p", "a", "c", "k", "a", "g", "e", "-", "l", "o", "c", "k", ".", "j", "s", "o", "n">>)]

CallAnalyzeLockfile ==
    /\ Idle
    /\ \E lockfileData \in {NullLockfile, LockfileWithoutPackages}
           \cup {LockfileData(ps) : ps \in SeqsUpTo(LockfileEntries, MaxEntries)} :
        Call("analyzeLockfile",
             <<lockfileData,
               IF NoPackages(lockfileData) THEN <<>>
               ELSE CheckOf(lockfileData.packages)>>,
             analyzeLockfile(lockfileData))

NextLock ==
    \/ CallAnalyzeLockfile

SpecLock == InitVersion /\ [][NextLock]_vars

\* the advisories matched for the package of finding f in a call
MatchedFor(f) == args[2][<<f.package, f.currentVersion>>]

\* C11: the patched version analyzeLockfile chooses for a package equals the
\* target computeMinimalFixes chooses for the same matched advisories, the
\* maximum under compareVersions, channel and sequence taken into account.
C11_SameReduction ==
    (op = "analyzeLockfile" /\ ret # NullLockfile) =>
        \A i \in 1..Len(ret.vulnerabilities) :
            ret.vulnerabilities[i].patchedVersion
                = FixOf(PlannedFinding(MatchedFor(ret.vulnerabilities[i]))).patched

\* the findings a call of analyzeLockfile returned
LockfileFindings == IF ret = NullLockfile THEN <<>> ELSE ret.vulnerabilities

\* the entries given to a call of analyzeLockfile
GivenEntries == IF NoPackages(args[1]) THEN <<>> ELSE args[1].packages

\* entry i has the name and the version of finding f
SamePair(i, f) ==
    /\ GivenEntries[i].name = f.package
    /\ GivenEntries[i].version = f.currentVersion

\* C12: analyzeLockfile returns at most one finding per (package name,
\* resolved version) pair, however often the pair occurs among the entries,
\* and that finding is the one of the pair's first occurrence: it has the
\* origin of the first entry with the pair and the advisories matched for it.
C12_OneFindingPerPair ==
    op = "analyzeLockfile" =>
        /\ \A i, j \in 1..Len(LockfileFindings) :
             (/\ LockfileFindings[i].package = LockfileFindings[j].package
              /\ LockfileFindings[i].currentVersion
                   = LockfileFindings[j].currentVersion) => i = j
        /\ \A i \in 1..Len(LockfileFindings) :
             \E k \in 1..Len(GivenEntries) :
                /\ SamePair(k, LockfileFindings[i])
                /\ \A l \in 1..(k - 1) : ~SamePair(l, LockfileFindings[i])
                /\ LockfileFindings[i].resolved = GivenEntries[k].resolved
                /\ Len(LockfileFindings[i].cves)
                     = Len(MatchedFor(LockfileFindings[i]))

\* a flagged pair occurs twice, from different origins, and has its finding
C12_Witness ==
    /\ op = "analyzeLockfile"
    /\ \E k, l \in 1..Len(GivenEntries) :
        /\ k < l
        /\ GivenEntries[k].name = GivenEntries[l].name
        /\ GivenEntries[k].version = GivenEntries[l].version
        /\ GivenEntries[k].resolved # GivenEntries[l].resolved
        /\ \E i \in 1..Len(LockfileFindings) : SamePair(k, LockfileFindings[i])

(***************************************************************************)
(* lib/utils/lockfile-scanner.js: the parsers of lock files.  A file is a  *)
(* record: exists, readable (readFileSync succeeds) and content, the text  *)
(* as a sequence of characters, or for package-lock.json what JSON.parse   *)
(* makes of the text.  An exception that leaves a function is the value    *)
(* Raised.                                                                 *)
(***************************************************************************)

\* \s
IsWhitespace(c) == c \in WhiteSpace

\* the index of the first character c of s, 0 when s has none
IndexOf(s, c) ==
    IF \E i \in 1..Len(s) : s[i] = c
    THEN CHOOSE i \in 1..Len(s) : s[i] = c /\ \A j \in 1..(i - 1) : s[j] # c
    ELSE 0

RECURSIVE split(_)
\* content.split("\n")
split(content) ==
    Only({IF i = 0 THEN <<content>>
          ELSE <<Take(content, i - 1)>> \o split(Drop(content, i)) :
          i \in {IndexOf(content, "\n")}})

RECURSIVE Run(_, _)
\* number of leading characters of s that are not whitespace and not in stop
Run(s, stop) ==
    IF s = <<>> THEN 0
    ELSE IF IsWhitespace(Head(s)) \/ Head(s) \in stop THEN 0
    ELSE 1 + Run(Tail(s), stop)

RECURSIVE WhitespaceRun(_)
WhitespaceRun(s) ==
    IF s = <<>> THEN 0
    ELSE IF IsWhitespace(Head(s)) THEN 1 + WhitespaceRun(Tail(s))
    ELSE 0

\* the index of the first double quote of s, 0 when it has none
FirstQuote(s) == IndexOf(s, "\"")

\* s matches [^"]*"?:?\s*$
YarnTail(s) ==
    Only({IF q = 0 THEN TRUE
          ELSE Only({WhitespaceRun(rest) = Len(rest) :
                     rest \in {IF Len(s) > q /\ s[q + 1] = ":"
                               THEN Drop(s, q + 1) ELSE Drop(s, q)}}) :
          q \in {FirstQuote(s)}})

\* ([^@\s]+)@[^"]*"?:?\s*$ matched on s: the group, <<>> when s does not match
YarnNameAt(s) ==
    Only({IF n >= 1 /\ Len(s) > n /\ s[n + 1] = "@" /\ YarnTail(Drop(s, n + 1))
          THEN Take(s, n) ELSE <<>> :
          n \in {Run(s, {"@"})}})

\* line.match(/^"?([^@\s]+)@[^"]*"?:?\s*$/): the group, <<>> without a match;
\* the leading quote is part of the group when the line matches in no other way
YarnPackageMatch(line) ==
    IF line # <<>> /\ Head(line) = "\"" /\ YarnNameAt(Tail(line)) # <<>>
    THEN YarnNameAt(Tail(line))
    ELSE YarnNameAt(line)

\* "([^"]+)" at the start of s: the group, <<>> without a match
QuotedAt(s) ==
    IF s # <<>> /\ Head(s) = "\"" /\ FirstQuote(Tail(s)) > 1
    THEN Take(Tail(s), FirstQuote(Tail(s)) - 1)
    ELSE <<>>

VersionWord == <<"v", "e", "r", "s", "i", "o", "n">>

\* line.match(/^\s+version\s+"([^"]+)"/): the group, <<>> without a match
YarnVersionMatch(line) ==
    Only({IF n >= 1 /\ startsWith(rest, VersionWord)
             /\ WhitespaceRun(Drop(rest, 7)) >= 1
          THEN QuotedAt(Drop(rest, 7 + WhitespaceRun(Drop(rest, 7))))
          ELSE <<>> :
          n \in {WhitespaceRun(line)}, rest \in {Drop(line, WhitespaceRun(line))}})

\* REACT_PACKAGES.includes(packageName)
IsReactPackage(packageName) == \E i \in 1..Len(REACT_PACKAGES) : REACT_PACKAGES[i] = packageName

RECURSIVE YarnPackagesKeepingCursor(_, _)
\* the loop without the reset of currentPackage after an entry is pushed
YarnPackagesKeepingCursor(lines, currentPackage) ==
    IF lines = <<>> THEN <<>>
    ELSE Only({
        IF packageMatch # <<>>
        THEN YarnPackagesKeepingCursor(Tail(lines),
                 IF IsReactPackage(packageMatch) THEN packageMatch ELSE <<>>)
        ELSE IF currentPackage # <<>> /\ YarnVersionMatch(Head(lines)) # <<>>
             THEN <<[name |-> currentPackage,
                     version |-> YarnVersionMatch(Head(lines)),
                     resolved |-> NULL]>>
                  \o YarnPackagesKeepingCursor(Tail(lines), currentPackage)
        ELSE YarnPackagesKeepingCursor(Tail(lines), currentPackage) :
        packageMatch \in {YarnPackageMatch(Head(lines))}})

RECURSIVE YarnPackagesFrom(_, _)
\* the loop of parseYarnLockfile over the lines; currentPackage is <<>> for null
YarnPackagesFrom(lines, currentPackage) ==
    IF lines = <<>> THEN <<>>
    ELSE Only({
        IF packageMatch # <<>>
        THEN YarnPackagesFrom(Tail(lines),
                 IF IsReactPackage(packageMatch) THEN packageMatch ELSE <<>>)
        ELSE IF currentPackage # <<>> /\ YarnVersionMatch(Head(lines)) # <<>>
             THEN <<[name |-> currentPackage,
                     version |-> YarnVersionMatch(Head(lines)),
                     resolved |-> NULL]>>
                  \o YarnPackagesFrom(Tail(lines), <<>>)
        ELSE YarnPackagesFrom(Tail(lines), currentPackage) :
        packageMatch \in {YarnPackageMatch(Head(lines))}})

parseYarnLockfile(file) ==
    IF ~file.readable THEN <<>>
    ELSE YarnPackagesFrom(split(file.content), <<>>)

\* line.match(new RegExp(`^\\s*['/]${packageName}@([^:(/\\s]+)`)): the group,
\* <<>> without a match
PnpmMatch(line, packageName) ==
    Only({IF rest # <<>> /\ Head(rest) \in {"'", "/"}
             /\ startsWith(Tail(rest), Append(packageName, "@"))
          THEN Take(Drop(rest, Len(packageName) + 2),
                    Run(Drop(rest, Len(packageName) + 2), {":", "(", "/"}))
          ELSE <<>> :
          rest \in {Drop(line, WhitespaceRun(line))}})

RECURSIVE PnpmLinePackages(_, _)
\* the loop over REACT_PACKAGES for one line
PnpmLinePackages(line, names) ==
    IF names = <<>> THEN <<>>
    ELSE (IF PnpmMatch(line, Head(names)) # <<>>
          THEN <<[name |-> Head(names), version |-> PnpmMatch(line, Head(names)),
                  resolved |-> NULL]>>
          ELSE <<>>)
         \o PnpmLinePackages(line, Tail(names))

RECURSIVE PnpmPackagesFrom(_)
PnpmPackagesFrom(lines) ==
    IF lines = <<>> THEN <<>>
    ELSE PnpmLinePackages(Head(lines), REACT_PACKAGES) \o PnpmPackagesFrom(Tail(lines))

parsePnpmLockfile(file) ==
    IF ~file.readable THEN <<>>
    ELSE PnpmPackagesFrom(split(file.content))

parseBunLockfile(file) == <<>>

\* JSON.parse fails on the text
InvalidJson == [invalid |-> TRUE]

\* the JSON value null
JsonNull == [null |-> TRUE]

\* obj[f], null for a property the object does not have
Get(obj, f) == IF f \in DOMAIN obj THEN obj[f] ELSE NULL

\* a then b, an exception raised in one of them ending both
Then(a, b) ==
    IF a = <<Raised>> THEN a ELSE IF b = <<Raised>> THEN b ELSE a \o b

NodeModulesPrefix == <<"n", "o", "d", "e", "_", "m", "o", "d", "u", "l", "e", "s", "/">>

\* packagePath.replace(/^node_modules\//, "")
PackageNameOf(packagePath) ==
    IF startsWith(packagePath, NodeModulesPrefix)
    THEN Drop(packagePath, Len(NodeModulesPrefix))
    ELSE packagePath

\* the entry pushed for name and info; reading info.version raises when info
\* is null
NpmEntry(name, info) ==
    IF info = JsonNull THEN <<Raised>>
    ELSE IF Truthy(Get(info, "version"))
         THEN <<[name |-> name,
                 version |-> info.version,
                 resolved |-> IF Truthy(Get(info, "resolved"))
                              THEN info.resolved ELSE NULL]>>
    ELSE <<>>

RECURSIVE NpmPackagesFrom(_)
\* the loop over Object.entries(content.packages)
NpmPackagesFrom(entries) ==
    IF entries = <<>> THEN <<>>
    ELSE Then(Only({IF name # <<>> /\ IsReactPackage(name)
                    THEN NpmEntry(name, Head(entries)[2]) ELSE <<>> :
                    name \in {PackageNameOf(Head(entries)[1])}}),
              NpmPackagesFrom(Tail(entries)))

RECURSIVE extractNpmDependencies(_)
\* what the function adds to results for the entries dependencies
extractNpmDependencies(dependencies) ==
    IF dependencies = <<>> THEN <<>>
    ELSE Then(Then(IF IsReactPackage(Head(dependencies)[1])
                   THEN NpmEntry(Head(dependencies)[1], Head(dependencies)[2]) ELSE <<>>,
                   IF Head(dependencies)[2] = JsonNull THEN <<Raised>>
                   ELSE IF "dependencies" \in DOMAIN Head(dependencies)[2]
                        THEN extractNpmDependencies(Head(dependencies)[2].dependencies)
                   ELSE <<>>),
              extractNpmDependencies(Tail(dependencies)))

\* the body of the try of parseNpmLockfile
NpmPackagesOf(file) ==
    IF ~file.readable \/ file.content = InvalidJson \/ file.content = JsonNull
    THEN <<Raised>>
    ELSE Then(IF "packages" \in DOMAIN file.content
              THEN NpmPackagesFrom(file.content.packages) ELSE <<>>,
              IF "dependencies" \in DOMAIN file.content
              THEN extractNpmDependencies(file.content.dependencies) ELSE <<>>)

\* the parser without its catch
parseNpmLockfileUncaught(file) == NpmPackagesOf(file)

parseNpmLockfile(file) ==
    IF NpmPackagesOf(file) = <<Raised>> THEN <<>> ELSE NpmPackagesOf(file)

\* the names scanLockfile tries, in its order, each with its parser
lockfiles ==
    <<[name |-> <<"p", "a", "c", "k", "a", "g", "e", "-", "l", "o", "c", "k", ".", "j", "s", "o", "n">>, parser |-> "parseNpmLockfile"],
      [name |-> <<"y", "a", "r", "n", ".", "l", "o", "c", "k">>, parser |-> "parseYarnLockfile"],
      [name |-> <<"p", "n", "p", "m", "-", "l", "o", "c", "k", ".", "y", "a", "m", "l">>, parser |-> "parsePnpmLockfile"],
      [name |-> <<"b", "u", "n", ".", "l", "o", "c", "k", "b">>, parser |-> "parseBunLockfile"],
      [name |-> <<"b", "u", "n", ".", "l", "o", "c", "k">>, parser |-> "parseBunLockfile"]>>

\* lockfile.parser(lockfilePath)
Parse(parser, file) ==
    CASE parser = "parseNpmLockfile" -> parseNpmLockfile(file)
      [] parser = "parseYarnLockfile" -> parseYarnLockfile(file)
      [] parser = "parsePnpmLockfile" -> parsePnpmLockfile(file)
      [] OTHER -> parseBunLockfile(file)

RECURSIVE ScanFromFirstExisting(_, _)
\* a scan that the first existing file ends, whatever its parse yields
ScanFromFirstExisting(dir, i) ==
    IF i > Len(lockfiles) THEN NullLockfile
    ELSE IF ~dir.files[i].exists THEN ScanFromFirstExisting(dir, i + 1)
    ELSE Only({IF packages = <<Raised>> THEN Raised
               ELSE IF Len(packages) > 0
                    THEN [lockfile |-> lockfiles[i].name,
                          path |-> join(dir.path, lockfiles[i].name),
                          packages |-> packages]
               ELSE NullLockfile :
               packages \in {Parse(lockfiles[i].parser, dir.files[i])}})

RECURSIVE ScanFrom(_, _)
\* the loop of scanLockfile from the i-th name on; dir.files[i] is the file
\* of that name in the directory
ScanFrom(dir, i) ==
    IF i > Len(lockfiles) THEN NullLockfile
    ELSE IF ~dir.files[i].exists THEN ScanFrom(dir, i + 1)
    ELSE Only({IF packages = <<Raised>> THEN Raised
               ELSE IF Len(packages) > 0
                    THEN [lockfile |-> lockfiles[i].name,
                          path |-> join(dir.path, lockfiles[i].name),
                          packages |-> packages]
               ELSE ScanFrom(dir, i + 1) :
               packages \in {Parse(lockfiles[i].parser, dir.files[i])}})

scanLockfile(dir) == ScanFrom(dir, 1)

(***************************************************************************)
(* Calls of the parsers and of scanLockfile.                               *)
(***************************************************************************)
MaxLines == 3        \* lines of a yarn.lock or pnpm-lock.yaml
MaxNpmEntries == 2   \* entries of packages or dependencies in a package-lock.json

File(exists, readable, content) ==
    [exists |-> exists, readable |-> readable, content |-> content]

RECURSIVE JoinLines(_)
\* the text whose lines are ls
JoinLines(ls) ==
    IF ls = <<>> THEN <<>>
    ELSE IF Len(ls) = 1 THEN ls[1]
    ELSE ls[1] \o <<"\n">> \o JoinLines(Tail(ls))

YarnLines ==
    {<<"r", "e", "a", "c", "t", "@", "1", "9", ".", "0", ".", "0", ":">>,
     <<"\"", "r", "e", "a", "c", "t", "-", "d", "o", "m", "@", "^", "1", "9", ".", "0", ".", "0", "\"", ":">>,
     <<"l", "o", "d", "a", "s", "h", "@", "4", ".", "1", "7", ".", "2", "1", ":">>,
     <<" ", " ", "v", "e", "r", "s", "i", "o", "n", " ", "\"", "1", "9", ".", "0", ".", "0", "\"">>,
     <<"\"", "@", "b", "a", "b", "e", "l", "/", "c", "o", "r", "e", "@", "7", ".", "0", ".", "0", "\"", ":">>,
     <<>>,
     <<" ", " ", "v", "e", "r", "s", "i", "o", "n", ":", " ", "1", "9", ".", "0", ".", "0", "\r">>}

PnpmLines ==
    {<<" ", " ", "/", "r", "e", "a", "c", "t", "@", "1", "9", ".", "0", ".", "0", ":">>,
     <<" ", " ", "/", "r", "e", "a", "c", "t", "-", "d", "o", "m", "@", "1", "9", ".", "0", ".", "0", "(", "r", "e", "a", "c", "t", "@", "1", "9", ".", "0", ".", "0", ")", ":">>,
     <<" ", " ", "'", "r", "e", "a", "c", "t", "-", "s", "e", "r", "v", "e", "r", "-", "d", "o", "m", "-", "w", "e", "b", "p", "a", "c", "k", "@", "1", "9", ".", "1", ".", "0", "'", ":">>,
     <<" ", " ", "/", "l", "o", "d", "a", "s", "h", "@", "4", ".", "1", "7", ".", "2", "1", ":">>,
     <<" ", " ", " ", " ", "v", "e", "r", "s", "i", "o", "n", ":", " ", "1", "9", ".", "0", ".", "0">>,
     <<>>}

YarnTexts == {JoinLines(ls) : ls \in SeqsUpTo(YarnLines, MaxLines)}

PnpmTexts == {JoinLines(ls) : ls \in SeqsUpTo(PnpmLines, MaxLines)}

\* keys of the packages object of a package-lock.json
NpmPaths ==
    {<<>>,
     <<"n", "o", "d", "e", "_", "m", "o", "d", "u", "l", "e", "s", "/", "r", "e", "a", "c", "t">>,
     <<"n", "o", "d", "e", "_", "m", "o", "d", "u", "l", "e", "s", "/", "l", "o", "d", "a", "s", "h">>,
     <<"n", "o", "d", "e", "_", "m", "o", "d", "u", "l", "e", "s", "/", "n", "e", "x", "t">>,
     <<"r", "e", "a", "c", "t", "-", "d", "o", "m">>,
     <<"n", "o", "d", "e", "_", "m", "o", "d", "u", "l", "e", "s", "/", "l", "o", "d", "a", "s", "h", "/", "n", "o", "d", "e", "_", "m", "o", "d", "u", "l", "e", "s", "/", "r", "e", "a", "c", "t">>}

\* values of the packages object
NpmInfos ==
    {JsonNull,
     [version |-> StableStr(19, 0, 0), resolved |-> ResolvedA],
     [version |-> StableStr(19, 1, 0)],
     [resolved |-> ResolvedA]}

Lodash == <<"l", "o", "d", "a", "s", "h">>

\* entries nested under an entry of the dependencies object
NestedReactDom == <<REACT_PACKAGES[2], [version |-> StableStr(19, 1, 0)]>>

NestedNull == <<REACT_PACKAGES[1], JsonNull>>

\* entries of the dependencies object of a version 1 package-lock.json
NpmDependencies ==
    {<<n, i>> :
        n \in {REACT_PACKAGES[1], Lodash},
        i \in {JsonNull,
               [version |-> StableStr(19, 0, 0)],
               [version |-> StableStr(4, 17, 21),
                dependencies |-> <<NestedReactDom>>],
               [dependencies |-> <<NestedNull>>]}}

\* the entries of an object, each a key and a value: no key comes twice
DistinctKeys(entries) ==
    \A i, j \in 1..Len(entries) : entries[i][1] = entries[j][1] => i = j

\* what JSON.parse makes of the text of a package-lock.json
NpmContents ==
    {InvalidJson, JsonNull, [lockfileVersion |-> 3]}
    \cup {[lockfileVersion |-> 3, packages |-> ps] :
            ps \in {es \in SeqsUpTo(NpmPaths \X NpmInfos, MaxNpmEntries) :
                      DistinctKeys(es)}}
    \cup {[lockfileVersion |-> 1, dependencies |-> ds] :
            ds \in {es \in SeqsUpTo(NpmDependencies, MaxNpmEntries) :
                      DistinctKeys(es)}}
    \cup {[lockfileVersion |-> 2, packages |-> <<pe>>, dependencies |-> <<de>>] :
            pe \in NpmPaths \X NpmInfos, de \in NpmDependencies}

NpmFiles ==
    {File(TRUE, FALSE, InvalidJson)} \cup {File(TRUE, TRUE, c) : c \in NpmContents}

YarnFiles ==
    {File(TRUE, FALSE, <<>>)} \cup {File(TRUE, TRUE, c) : c \in YarnTexts}

PnpmFiles ==
    {File(TRUE, FALSE, <<>>)} \cup {File(TRUE, TRUE, c) : c \in PnpmTexts}

BunFiles == {File(TRUE, FALSE, <<>>), File(TRUE, TRUE, <<"binary">>)}

CallParseNpmLockfile ==
    /\ Idle
    /\ \E file \in NpmFiles : Call("parseNpmLockfile", <<file>>, parseNpmLockfile(file))

CallParseYarnLockfile ==
    /\ Idle
    /\ \E file \in YarnFiles : Call("parseYarnLockfile", <<file>>, parseYarnLockfile(file))

CallParsePnpmLockfile ==
    /\ Idle
    /\ \E file \in PnpmFiles : Call("parsePnpmLockfile", <<file>>, parsePnpmLockfile(file))

CallParseBunLockfile ==
    /\ Idle
    /\ \E file \in BunFiles : Call("parseBunLockfile", <<file>>, parseBunLockfile(file))

\* a name the directory has no file of
Absent == File(FALSE, FALSE, <<>>)

\* the files a scanned directory can have under each of the five names
ScannedFiles ==
    <<{Absent,
       File(TRUE, FALSE, InvalidJson),
       File(TRUE, TRUE, InvalidJson),
       File(TRUE, TRUE, [lockfileVersion |-> 3]),
       File(TRUE, TRUE, [lockfileVersion |-> 3,
                         packages |-> <<<<<<"n", "o", "d", "e", "_", "m", "o", "d", "u", "l", "e", "s", "/", "l", "o", "d", "a", "s", "h">>,
                                          [version |-> StableStr(4, 17, 21)]>> >>]),
       File(TRUE, TRUE, [lockfileVersion |-> 3,
                         packages |-> <<<<<<"n", "o", "d", "e", "_", "m", "o", "d", "u", "l", "e", "s", "/", "r", "e", "a", "c", "t">>,
                                          [version |-> StableStr(19, 0, 0),
                                           resolved |-> ResolvedA]>> >>])},
      {Absent,
       File(TRUE, FALSE, <<>>),
       File(TRUE, TRUE, <<>>),
       File(TRUE, TRUE, <<" ", " ", "v", "e", "r", "s", "i", "o", "n", ":", " ", "1", "9", ".", "0", ".", "0", "\r">>),
       File(TRUE, TRUE, <<"r", "e", "a", "c", "t", "@", "1", "9", ".", "0", ".", "0", ":", "\n", " ", " ", "v", "e", "r", "s", "i", "o", "n", " ", "\"", "1", "9", ".", "0", ".", "0", "\"">>)},
      {Absent,
       File(TRUE, FALSE, <<>>),
       File(TRUE, TRUE, <<>>),
       File(TRUE, TRUE, <<" ", " ", "/", "r", "e", "a", "c", "t", "-", "d", "o", "m", "@", "1", "9", ".", "0", ".", "0", "(", "r", "e", "a", "c", "t", "@", "1", "9", ".", "0", ".", "0", ")", ":">>)},
      {Absent, File(TRUE, TRUE, <<"binary">>)},
      {Absent, File(TRUE, TRUE, <<"binary">>)}>>

CallScanLockfile ==
    /\ Idle
    /\ \E f1 \in ScannedFiles[1], f2 \in ScannedFiles[2], f3 \in ScannedFiles[3],
          f4 \in ScannedFiles[4], f5 \in ScannedFiles[5] :
        \E dir \in {[path |-> <<"/", "a", "p", "p">>, files |-> <<f1, f2, f3, f4, f5>>]} :
            Call("scanLockfile", <<dir>>, scanLockfile(dir))

NextScan ==
    \/ CallParseNpmLockfile
    \/ CallParseYarnLockfile
    \/ CallParsePnpmLockfile
    \/ CallParseBunLockfile
    \/ CallScanLockfile

SpecScan == InitVersion /\ [][NextScan]_vars

(***************************************************************************)
(* Properties of the scan of a directory.                                  *)
(***************************************************************************)
\* the five names in the order of priority
PriorityOrder ==
    <<<<"p", "a", "c", "k", "a", "g", "e", "-", "l", "o", "c", "k", ".", "j", "s", "o", "n">>, <<"y", "a", "r", "n", ".", "l", "o", "c", "k">>, <<"p", "n", "p", "m", "-", "l", "o", "c", "k", ".", "y", "a", "m", "l">>,
      <<"b", "u", "n", ".", "l", "o", "c", "k", "b">>, <<"b", "u", "n", ".", "l", "o", "c", "k">> >>

\* the entries the parser of the i-th name finds in the file of that name
EntriesOf(dir, i) ==
    CASE i = 1 -> parseNpmLockfile(dir.files[1])
      [] i = 2 -> parseYarnLockfile(dir.files[2])
      [] i = 3 -> parsePnpmLockfile(dir.files[3])
      [] OTHER -> parseBunLockfile(dir.files[i])

\* the i-th name has a file in dir and the file has a watched entry
Qualifies(dir, i) == dir.files[i].exists /\ EntriesOf(dir, i) # <<>>

\* C13: scanLockfile returns the first file, in the order package-lock.json,
\* yarn.lock, pnpm-lock.yaml, bun.lockb, bun.lock, that exists and whose parse
\* has an entry, with the entries of that file only; existing files without
\* entries before it do not end the search; the result is null when no file
\* qualifies, and a result that is not null has entries.
C13_FirstQualifying ==
    op = "scanLockfile" =>
        /\ (\A i \in 1..5 : ~Qualifies(args[1], i)) => ret = NullLockfile
        /\ \A k \in 1..5 :
             (Qualifies(args[1], k) /\ \A i \in 1..(k - 1) : ~Qualifies(args[1], i)) =>
                /\ ret # NullLockfile
                /\ ret.lockfile = PriorityOrder[k]
                /\ ret.path = join(args[1].path, PriorityOrder[k])
                /\ ret.packages = EntriesOf(args[1], k)
        /\ ret # NullLockfile => Len(ret.packages) > 0

\* package-lock.json exists without an entry, yarn.lock and pnpm-lock.yaml
\* both have entries, and yarn.lock is the result
C13_Witness ==
    /\ op = "scanLockfile"
    /\ args[1].files[1].exists /\ ~Qualifies(args[1], 1)
    /\ Qualifies(args[1], 2) /\ Qualifies(args[1], 3)
    /\ ret # NullLockfile
    /\ ret.lockfile = <<"y", "a", "r", "n", ".", "l", "o", "c", "k">>

\* the file is unreadable, or its text is not JSON or is the JSON null, or
\* (for the formats read as text) it is empty
Malformed(i, file) ==
    \/ ~file.readable
    \/ i = 1 /\ file.content \in {InvalidJson, JsonNull}
    \/ i > 1 /\ file.content = <<>>

\* C14: no parser raises, each returns the empty list for an unreadable or
\* malformed file, and scanLockfile does not raise and returns null for a
\* directory whose only lock file is malformed, empty or unreadable.
C14_ParsersNeverRaise ==
    /\ op = "parseNpmLockfile" =>
         /\ ret # <<Raised>>
         /\ Malformed(1, args[1]) => ret = <<>>
    /\ op \in {"parseYarnLockfile", "parsePnpmLockfile", "parseBunLockfile"} =>
         /\ ret # <<Raised>>
         /\ Malformed(2, args[1]) => ret = <<>>
    /\ op = "scanLockfile" =>
         /\ ret # Raised
         /\ \A k \in 1..5 :
              (/\ args[1].files[k].exists
               /\ Malformed(k, args[1].files[k])
               /\ \A i \in (1..5) \ {k} : ~args[1].files[i].exists) =>
                  ret = NullLockfile

\* the only lock file of the directory is a package-lock.json whose text is
\* not JSON, and the scan returned null
C14_Witness ==
    /\ op = "scanLockfile"
    /\ args[1].files[1] = File(TRUE, TRUE, InvalidJson)
    /\ \A i \in 2..5 : ~args[1].files[i].exists
    /\ ret = NullLockfile

(***************************************************************************)
(* Properties of the writes of a run.                                      *)
(***************************************************************************)
\* the fixes of the planned file, none when nothing was planned
PlannedFixes == IF minimalFixes = <<>> THEN <<>> ELSE minimalFixes[1].fixes

\* C21: when the fixes are applied, the specifier written for a package is
\* the target version behind the prefix operator (^, ~, >=, >) of the
\* specifier it replaces, and the bare target version when that specifier was
\* an exact version or an unsupported range.
C21_PrefixKept ==
    [][(pc = "planned" /\ pc' = "applied") =>
         \A i \in 1..Len(PlannedFixes) :
            /\ (/\ Truthy(PlannedFixes[i].patched) /\ PlannedFixes[i].inDeps
                /\ Truthy(deps[PlannedFixes[i].package])) =>
                  deps'[PlannedFixes[i].package]
                    = applyVersionPrefix(deps[PlannedFixes[i].package],
                                         PlannedFixes[i].patched)
            /\ (/\ Truthy(PlannedFixes[i].patched) /\ PlannedFixes[i].inDevDeps
                /\ Truthy(devDeps[PlannedFixes[i].package])) =>
                  devDeps'[PlannedFixes[i].package]
                    = applyVersionPrefix(devDeps[PlannedFixes[i].package],
                                         PlannedFixes[i].patched)]_vars

(***************************************************************************)
(* Properties of the rule and of the registry.                             *)
(***************************************************************************)
\* C29: every version of next that isNextVersionVulnerable reports as
\* vulnerable gets a recommended version from getNextPatchedVersion.
C29_VulnerableHasPatch ==
    (op = "getNextPatchedVersion" /\ isNextVersionVulnerable(args[1]).vulnerable) =>
        /\ ~ret.null
        /\ Truthy(ret.recommended)

\* a vulnerable 14.3.0 canary got its recommendation
C29_Witness ==
    /\ op = "getNextPatchedVersion"
    /\ args = <<CanaryStr(14, 3, 0, 78)>>
    /\ isNextVersionVulnerable(args[1]).vulnerable
    /\ Truthy(ret.recommended)

\* the packages object of the lock file given to a parseNpmLockfile call,
\* empty when the file has none
GivenPackages ==
    IF args[1].readable /\ "packages" \in DOMAIN args[1].content
    THEN args[1].content.packages ELSE <<>>

\* some advisory of the registry applies to the package named by the text
Covered(name) ==
    \E i \in 1..Len(getAllPackages) : getAllPackages[i] = PackageNamed(name)

\* C30: every package some advisory applies to, next included, is on the
\* watch-list of the lock file parsers: a locked version of such a package in
\* a well-formed package-lock.json is among the entries the parser returns.
C30_CoveredAreWatched ==
    (/\ op = "parseNpmLockfile"
     /\ \A k \in 1..Len(GivenPackages) : GivenPackages[k][2] # JsonNull) =>
        \A k \in 1..Len(GivenPackages) :
            (/\ Covered(PackageNameOf(GivenPackages[k][1]))
             /\ Truthy(Get(GivenPackages[k][2], "version"))) =>
                \E i \in 1..Len(ret) :
                    /\ ret[i].name = PackageNameOf(GivenPackages[k][1])
                    /\ ret[i].version = GivenPackages[k][2].version

\* C25: the fix planned from an UNKNOWN finding of analyzePackageJson has a
\* note that is not empty, and the finding's recommended version as target.
C25_UnknownNoteSurvives ==
    pc = "planned" =>
        \A i \in 1..Len(PlannedFixes) :
            PlannedFixes[i].cves = <<"UNKNOWN">> =>
                /\ Truthy(PlannedFixes[i].note)
                /\ \E k \in 1..Len(analysis.vulnerabilities) :
                      /\ analysis.vulnerabilities[k].package = PlannedFixes[i].package
                      /\ PlannedFixes[i].patched = analysis.vulnerabilities[k].patched

\* the lines of the file given to a call of parseYarnLockfile
YarnGiven == IF args[1].readable THEN split(args[1].content) ELSE <<>>

\* line i is a package declaration
IsDeclaration(i) == YarnPackageMatch(YarnGiven[i]) # <<>>

\* line i is a version line
IsVersionLine(i) == ~IsDeclaration(i) /\ YarnVersionMatch(YarnGiven[i]) # <<>>

\* the most recent declaration before line i, 0 when there is none
LastDeclaration(i) ==
    IF \E j \in 1..(i - 1) : IsDeclaration(j)
    THEN CHOOSE j \in 1..(i - 1) :
            IsDeclaration(j) /\ \A k \in (j + 1)..(i - 1) : ~IsDeclaration(k)
    ELSE 0

\* line i is the first version line after a declaration of a watched name
Emitting(i) ==
    /\ IsVersionLine(i)
    /\ LastDeclaration(i) > 0
    /\ IsReactPackage(YarnPackageMatch(YarnGiven[LastDeclaration(i)]))
    /\ \A j \in (LastDeclaration(i) + 1)..(i - 1) : ~IsVersionLine(j)

EmittingLines == {i \in 1..Len(YarnGiven) : Emitting(i)}

\* the k-th emitting line
EmittingLine(k) ==
    CHOOSE i \in EmittingLines : Cardinality({j \in EmittingLines : j < i}) = k - 1

\* C23: parseYarnLockfile emits an entry only on a version line under an
\* active cursor, named by the most recent declaration line, which is of a
\* watched name; emitting clears the cursor, so a declaration yields at most
\* one entry, and a declaration of another name clears it, so the version line
\* after it emits nothing.
C23_YarnCursor ==
    op = "parseYarnLockfile" =>
        /\ Len(ret) = Cardinality(EmittingLines)
        /\ \A k \in 1..Len(ret) :
              ret[k] = [name |-> YarnPackageMatch(
                                     YarnGiven[LastDeclaration(EmittingLine(k))]),
                        version |-> YarnVersionMatch(YarnGiven[EmittingLine(k)]),
                        resolved |-> NULL]

\* a watched declaration followed by two version lines gave one entry
C23_Witness ==
    /\ op = "parseYarnLockfile"
    /\ Len(YarnGiven) = 3
    /\ IsDeclaration(1) /\ IsVersionLine(2) /\ IsVersionLine(3)
    /\ Len(ret) = 1

\* a declaration of another name followed by a version line gave nothing
C23_WitnessCleared ==
    /\ op = "parseYarnLockfile"
    /\ Len(YarnGiven) = 3
    /\ IsDeclaration(1) /\ IsDeclaration(2) /\ IsVersionLine(3)
    /\ IsReactPackage(YarnPackageMatch(YarnGiven[1]))
    /\ ~IsReactPackage(YarnPackageMatch(YarnGiven[2]))
    /\ ret = <<>>

(***************************************************************************)
(* run(): the command line, the confirmation, the writes and the installs. *)
(* args holds process.argv.slice(2), stdin, and the package.json files as  *)
(* findAllPackageJsons(cwd) finds them: their paths, and what each holds   *)
(* when the run starts.  In a run manifestOk, pkgJson, deps and devDeps    *)
(* have one element per file, in the order of the paths, and analysis has one       *)
(* result per file.  ret holds the effects of the run in the order they    *)
(* happen, the exit code, and the variables of run() that outlive a step.  *)
(*                                                                         *)
(* lib/utils/filesystem.js is not among the sources.  What                 *)
(* findMonorepoRoot and findProjectRoot return, the lock files that        *)
(* detectPackageManager finds, the version of yarn and the exit status of  *)
(* the install command are inputs of the steps that read them.             *)
(***************************************************************************)
\* args.includes('--fix') || args.includes('-f')
shouldFix(argv) == "--fix" \in argv \/ "-f" \in argv

\* the check for the long flag only
dryRunLongOnly(argv) == "--dry-run" \in argv

\* args.includes('--dry-run') || args.includes('-d')
dryRun(argv) == "--dry-run" \in argv \/ "-d" \in argv

\* args.includes('--json')
jsonOutput(argv) == "--json" \in argv

\* args.includes('--lockfile-only')
lockfileOnly(argv) == "--lockfile-only" \in argv

\* stdin when it is not a terminal
NotTTY == [isTTY |-> FALSE, answer |-> <<>>]

\* !answer || answer.toLowerCase() === 'y' || answer.toLowerCase() === 'yes'
confirmed(answer) ==
    \/ answer = <<>>
    \/ toLowerCase(answer) = <<"y">>
    \/ toLowerCase(answer) = <<"y", "e", "s">>

\* the branch taken with --fix tested before --json and --dry-run
AfterPlanFixFirst(argv, stdin, fixes) ==
    IF fixes # <<>> /\ shouldFix(argv) THEN "apply"
    ELSE IF jsonOutput(argv) THEN "json"
    ELSE IF fixes = <<>> THEN "nothing"
    ELSE IF dryRun(argv) THEN "dry-run"
    ELSE IF ~stdin.isTTY THEN "non-interactive"
    ELSE IF ~confirmed(stdin.answer) THEN "skipped"
    ELSE "apply"

\* what run() does once the fixes are computed
AfterPlan(argv, stdin, fixes) ==
    IF jsonOutput(argv) THEN "json"
    ELSE IF fixes = <<>> THEN "nothing"
    ELSE IF dryRun(argv) THEN "dry-run"
    ELSE IF ~shouldFix(argv) /\ ~stdin.isTTY THEN "non-interactive"
    ELSE IF ~shouldFix(argv) /\ ~confirmed(stdin.answer) THEN "skipped"
    ELSE "apply"

\* modifiedDirs after applyFixes(file.path, file.fixes) returned modified:
\* path.dirname(file.path) is pushed for a modified file
modifiedDirs(dirs, path, modified) ==
    IF modified THEN Append(dirs, dirname(path)) ELSE dirs

RECURSIVE projectRoots(_, _, _)
\* the Set of findProjectRoot(dir) for the modified directories, in the
\* order the roots are added to it; rootOf is what findProjectRoot returns
projectRoots(dirs, rootOf, roots) ==
    IF dirs = <<>> THEN roots
    ELSE projectRoots(Tail(dirs), rootOf,
             IF \E i \in 1..Len(roots) : roots[i] = rootOf[Head(dirs)]
             THEN roots
             ELSE Append(roots, rootOf[Head(dirs)]))

RECURSIVE detectPackageManager(_, _)
\* lib/utils/package-manager.js: the package manager of the first directory,
\* from startDir upwards, that has a lock file; existing are the paths
\* fs.existsSync finds.  The loop ends at the directory that is its own
\* dirname, which is not looked at.
detectPackageManager(dir, existing) ==
    IF dir = dirname(dir) THEN "npm"
    ELSE IF \/ join(dir, <<"b", "u", "n", ".", "l", "o", "c", "k", "b">>) \in existing
            \/ join(dir, <<"b", "u", "n", ".", "l", "o", "c", "k">>) \in existing
         THEN "bun"
    ELSE IF join(dir, <<"p", "n", "p", "m", "-", "l", "o", "c", "k", ".", "y", "a", "m", "l">>) \in existing THEN "pnpm"
    ELSE IF join(dir, <<"y", "a", "r", "n", ".", "l", "o", "c", "k">>) \in existing THEN "yarn"
    ELSE IF join(dir, <<"p", "a", "c", "k", "a", "g", "e", "-", "l", "o", "c", "k", ".", "j", "s", "o", "n">>) \in existing THEN "npm"
    ELSE detectPackageManager(dirname(dir), existing)

\* the properties every object has from Object.prototype
InheritedProperties ==
    {"constructor", "__proto__", "hasOwnProperty", "isPrototypeOf",
     "propertyIsEnumerable", "toLocaleString", "toString", "valueOf",
     "__defineGetter__", "__defineSetter__", "__lookupGetter__",
     "__lookupSetter__"}

\* const [cmd, args] = commands[packageManager] || commands.npm of
\* runInstall, the command followed by its arguments; yarnMajor is
\* getYarnMajorVersion(cwd).  For the name of an inherited property
\* commands[packageManager] is a function or an object, which is truthy and
\* cannot be iterated: a TypeError is raised.
InstallCommand(packageManager, lockfile, yarnMajor) ==
    IF packageManager \in InheritedProperties THEN TypeError
    ELSE IF lockfile
    THEN CASE packageManager = "yarn" ->
                (IF yarnMajor >= 2
                 THEN <<"yarn", "install", "--mode", "update-lockfile">>
                 ELSE <<"yarn", "install">>)
           [] packageManager = "pnpm" -> <<"pnpm", "install", "--lockfile-only">>
           [] packageManager = "bun" -> <<"bun", "install", "--lockfile-only">>
           [] OTHER -> <<"npm", "install", "--package-lock-only">>
    ELSE CASE packageManager = "yarn" -> <<"yarn", "install">>
           [] packageManager = "pnpm" -> <<"pnpm", "install">>
           [] packageManager = "bun" -> <<"bun", "install">>
           [] OTHER -> <<"npm", "install">>

\* runInstall(packageManager, cwd, { lockfileOnly }): the command it spawns
\* in cwd, and result.status === 0; no command is spawned when it raises
runInstall(packageManager, cwd, lockfile, yarnMajor, status) ==
    IF InstallCommand(packageManager, lockfile, yarnMajor) = TypeError
    THEN Raised
    ELSE [effect |-> [kind |-> "install", cwd |-> cwd,
                      command |-> InstallCommand(packageManager, lockfile, yarnMajor)],
          success |-> status = 0]

\* fs.writeFileSync(pkgPath, ...)
Write(path) == [kind |-> "write", path |-> path]

NoEffects ==
    [effects |-> <<>>, exit |-> 0,
     applied |-> 0,                  \* files the loop over minimalFixes has done
     modified |-> FALSE,             \* what applyFixes returned last
     modifiedDirs |-> <<>>,
     roots |-> <<>>,                 \* projectRoots, in the order of the Set
     installed |-> 0,                \* roots the loop over projectRoots has done
     allInstallsSucceeded |-> TRUE]

Flags == {"--fix", "-f", "--dry-run", "-d", "--json", "--lockfile-only"}

Answers == {<<>>, <<"y">>, <<"Y", "E", "S">>, <<"n">>, <<"n", "o">>}

Stdins == {NotTTY} \cup {[isTTY |-> TRUE, answer |-> a] : a \in Answers}

\* process.cwd()
Cwd == <<"/", "a", "p", "p">>

\* the paths findAllPackageJsons(cwd) returns: none, the package.json of
\* cwd, and with it the one of a package below cwd
RootPackageJson == <<"/", "a", "p", "p", "/", "p", "a", "c", "k", "a", "g", "e", ".", "j", "s", "o", "n">>

WebPackageJson == <<"/", "a", "p", "p", "/", "p", "a", "c", "k", "a", "g", "e", "s", "/", "w", "e", "b", "/", "p", "a", "c", "k", "a", "g", "e", ".", "j", "s", "o", "n">>

\* declared versions of the runs: vulnerable in one block or in both, with
\* a range, patched already, unresolvable, and a canary of the 14.x line
RunManifests ==
    {<<ManifestBlock(StableStr(15, 3, 0), UNDEFINED), NoBlock>>,
     <<ManifestBlock(<<"^">> \o StableStr(15, 3, 0), <<"^">> \o StableStr(19, 0, 0)),
       NoBlock>>,
     <<ManifestBlock(StableStr(15, 3, 7), StableStr(19, 1, 4)), NoBlock>>,
     <<ManifestBlock(UNDEFINED, StableStr(19, 1, 0)),
       ManifestBlock(StableStr(15, 3, 0), UNDEFINED)>>,
     <<ManifestBlock(StableStr(15, 3, 0), UNDEFINED),
       ManifestBlock(StableStr(15, 3, 0), UNDEFINED)>>,
     <<ManifestBlock(StableStr(15, 3, 0), UNDEFINED), ManifestBlock(<<>>, UNDEFINED)>>,
     <<ManifestBlock(StableStr(15, 3, 0), UNDEFINED), ManifestBlock(NULL, UNDEFINED)>>,
     <<ManifestBlock(Latest, UNDEFINED), NoBlock>>,
     <<ManifestBlock(CanaryStr(14, 3, 0, 77), UNDEFINED), NoBlock>>,
     <<ManifestBlock(CanaryStr(14, 3, 0, 80), UNDEFINED), NoBlock>>}

\* declared versions of cwd in a project of two files: vulnerable, with
\* a range, patched already, and the first vulnerable canary of the 14.x line
RunRootManifests ==
    {<<ManifestBlock(StableStr(15, 3, 0), UNDEFINED), NoBlock>>,
     <<ManifestBlock(<<"^">> \o StableStr(15, 3, 0), <<"^">> \o StableStr(19, 0, 0)),
       NoBlock>>,
     <<ManifestBlock(StableStr(15, 3, 7), StableStr(19, 1, 4)), NoBlock>>,
     <<ManifestBlock(CanaryStr(14, 3, 0, 77), UNDEFINED), NoBlock>>}

\* declared versions of the package below cwd: vulnerable, patched already,
\* and the first vulnerable canary of the 14.x line
RunPackageManifests ==
    {<<ManifestBlock(StableStr(15, 3, 0), UNDEFINED), NoBlock>>,
     <<ManifestBlock(StableStr(15, 3, 7), UNDEFINED), NoBlock>>,
     <<ManifestBlock(CanaryStr(14, 3, 0, 77), UNDEFINED), NoBlock>>}

\* a package.json that is read, with its name and its blocks
Named(m, name) == [ok |-> TRUE, pkg |-> Pkg(name), deps |-> m[1], devDeps |-> m[2]]

\* the same without a name
Readable(m) == Named(m, UNDEFINED)

\* a package.json that cannot be read or is not JSON
Unreadable ==
    [ok |-> FALSE, pkg |-> Pkg(UNDEFINED), deps |-> NoBlock, devDeps |-> NoBlock]

\* a package.json with the text null
JsonNullFile ==
    [ok |-> TRUE, pkg |-> JsonNullPkg, deps |-> NoBlock, devDeps |-> NoBlock]

\* a package.json that has a name, and one with a number for the version of
\* next
OtherFiles ==
    {Named(<<ManifestBlock(StableStr(15, 3, 0), UNDEFINED), NoBlock>>, <<"m", "y", "-", "a", "p", "p">>),
     Readable(<<ManifestBlock(<<"number">>, UNDEFINED), NoBlock>>),
     JsonNullFile}

\* what the run finds: no package.json, one, or two
Projects ==
    {[paths |-> <<>>, files |-> <<>>]}
    \cup {[paths |-> <<RootPackageJson>>, files |-> <<f>>] :
            f \in {Readable(m) : m \in RunManifests} \cup {Unreadable}
                  \cup OtherFiles}
    \cup {[paths |-> <<RootPackageJson, WebPackageJson>>, files |-> <<f, g>>] :
            f \in {Readable(m) : m \in RunRootManifests} \cup {Unreadable},
            g \in {Readable(m) : m \in RunPackageManifests} \cup {Unreadable}
                  \cup {JsonNullFile}}

InitRun ==
    /\ op = "run"
    /\ \E argv \in SUBSET Flags, stdin \in Stdins, project \in Projects :
        args = [argv |-> argv, stdin |-> stdin,
                paths |-> project.paths, files |-> project.files]
    /\ ret = NoEffects
    /\ pc = "init"
    /\ manifestOk = [f \in 1..Len(args.files) |-> args.files[f].ok]
    /\ pkgJson = [f \in 1..Len(args.files) |-> args.files[f].pkg]
    /\ deps = [f \in 1..Len(args.files) |-> args.files[f].deps]
    /\ devDeps = [f \in 1..Len(args.files) |-> args.files[f].devDeps]
    /\ pmVersion = Block(NULL, NULL)
    /\ nmVersion = Block(NULL, NULL)
    /\ lookups = {} /\ evaluated = {}
    /\ analysis = <<>> /\ minimalFixes = <<>> /\ analysisAfter = <<>>

\* findAllPackageJsons(cwd): run() returns when it finds no package.json
FindPackageJsons ==
    /\ pc = "init"
    /\ pc' = IF Len(args.paths) = 0 THEN "done" ELSE "start"
    /\ UNCHANGED <<op, args, ret, manifestOk, pkgJson, deps, devDeps, pmVersion, nmVersion,
                   lookups, evaluated, analysis, minimalFixes, analysisAfter>>

\* analyzePackageJson(pkgPath) for the f-th file of the run: null for a file
\* that cannot be read
FileAnalysis(f) ==
    IF manifestOk[f]
    THEN Only({IF a = Raised THEN a ELSE [null |-> FALSE] @@ a :
               a \in {analyzePackageJson(args.paths[f], pkgJson[f], deps[f],
                                         devDeps[f], pmVersion, nmVersion)}})
    ELSE NoAnalysis

\* the first file of the run for which analyzePackageJson raises, one past
\* the last file when there is none
RaisingFile ==
    IF \E f \in 1..Len(args.paths) :
          manifestOk[f] /\ Raises(pkgJson[f], deps[f], devDeps[f])
    THEN CHOOSE f \in 1..Len(args.paths) :
            /\ manifestOk[f] /\ Raises(pkgJson[f], deps[f], devDeps[f])
            /\ \A g \in 1..(f - 1) :
                  ~(manifestOk[g] /\ Raises(pkgJson[g], deps[g], devDeps[g]))
    ELSE Len(args.paths) + 1

RECURSIVE AllAnalysisFrom(_, _)
\* allAnalysis of run(): of the results from the f-th on, those that are
\* not null and have findings
AllAnalysisFrom(results, f) ==
    IF f > Len(results) THEN <<>>
    ELSE AllAnalysis(results[f]) \o AllAnalysisFrom(results, f + 1)

\* the loop over packageJsonPaths; run() ends when analyzePackageJson raises
RunAnalyze ==
    /\ pc = "start"
    /\ \E stop \in {RaisingFile} :
        /\ pc' = IF stop <= Len(args.paths) THEN "raised" ELSE "analyzed"
        /\ analysis' = IF stop <= Len(args.paths) THEN analysis
                       ELSE [f \in 1..Len(args.paths) |-> FileAnalysis(f)]
        /\ \E read \in {{f \in 1..Len(args.paths) : f <= stop /\ manifestOk[f]}} :
            /\ lookups' = UNION {LookedUp(pkgJson[f], deps[f], devDeps[f]) :
                                 f \in read}
            /\ evaluated' = UNION {Evaluated(pkgJson[f], deps[f], devDeps[f],
                                             pmVersion, nmVersion) : f \in read}
    /\ UNCHANGED <<op, args, ret, manifestOk, pkgJson, deps, devDeps, pmVersion, nmVersion,
                   minimalFixes, analysisAfter>>

\* computeMinimalFixes(allAnalysis)
RunPlan ==
    /\ pc = "analyzed"
    /\ pc' = "planned"
    /\ minimalFixes' = computeMinimalFixes(AllAnalysisFrom(analysis, 1))
    /\ UNCHANGED <<op, args, ret, manifestOk, pkgJson, deps, devDeps, pmVersion, nmVersion,
                   lookups, evaluated, analysis, analysisAfter>>

\* run() returns after the report: JSON output, nothing to fix, or a dry run
RunReturn ==
    /\ pc = "planned"
    /\ AfterPlan(args.argv, args.stdin, minimalFixes) \in {"json", "nothing", "dry-run"}
    /\ pc' = "done"
    /\ UNCHANGED <<op, args, ret, manifestOk, pkgJson, deps, devDeps, pmVersion, nmVersion,
                   lookups, evaluated, analysis, minimalFixes, analysisAfter>>

\* process.exit(1): not interactive without --fix, or the fix is declined
RunExit ==
    /\ pc = "planned"
    /\ AfterPlan(args.argv, args.stdin, minimalFixes) \in {"non-interactive", "skipped"}
    /\ pc' = "exited"
    /\ ret' = [ret EXCEPT !.exit = 1]
    /\ UNCHANGED <<op, args, manifestOk, pkgJson, deps, devDeps, pmVersion, nmVersion,
                   lookups, evaluated, analysis, minimalFixes, analysisAfter>>

\* the file of the run that has the path given
FileIndex(path) == CHOOSE f \in 1..Len(args.paths) : args.paths[f] = path

\* the file of minimalFixes whose turn it is in the loop that applies them
FileInTurn == minimalFixes[ret.applied + 1]

\* one turn of the loop that applies the fixes, file by file; after the last
\* one run() returns when modifiedDirs.length === 0
RunApply ==
    /\ \/ pc = "planned" /\ AfterPlan(args.argv, args.stdin, minimalFixes) = "apply"
       \/ pc = "applying"
    /\ \E f \in {FileIndex(FileInTurn.path)} :
        \E r \in {applyFixes(deps[f], devDeps[f], FileInTurn.fixes)} :
            /\ pc' = IF ret.applied + 1 < Len(minimalFixes) THEN "applying"
                     ELSE IF Len(modifiedDirs(ret.modifiedDirs, FileInTurn.path,
                                              r.modified)) = 0
                          THEN "done"
                     ELSE "applied"
            /\ deps' = [deps EXCEPT ![f] = r.deps]
            /\ devDeps' = [devDeps EXCEPT ![f] = r.devDeps]
            /\ ret' = [ret EXCEPT
                         !.applied = @ + 1,
                         !.modified = r.modified,
                         !.effects = IF r.modified
                                     THEN Append(@, Write(FileInTurn.path))
                                     ELSE @,
                         !.modifiedDirs = modifiedDirs(@, FileInTurn.path, r.modified)]
    /\ UNCHANGED <<op, args, manifestOk, pkgJson, pmVersion, nmVersion,
                   lookups, evaluated, analysis, minimalFixes, analysisAfter>>

\* the lock files on disk when the package manager is detected
LockfilesOnDisk ==
    {{},
     {join(Cwd, <<"p", "a", "c", "k", "a", "g", "e", "-", "l", "o", "c", "k", ".", "j", "s", "o", "n">>)},
     {join(Cwd, <<"y", "a", "r", "n", ".", "l", "o", "c", "k">>), join(Cwd, <<"p", "a", "c", "k", "a", "g", "e", "-", "l", "o", "c", "k", ".", "j", "s", "o", "n">>)},
     {join(Cwd, <<"p", "n", "p", "m", "-", "l", "o", "c", "k", ".", "y", "a", "m", "l">>), join(dirname(WebPackageJson), <<"y", "a", "r", "n", ".", "l", "o", "c", "k">>)},
     {join(Cwd, <<"b", "u", "n", ".", "l", "o", "c", "k", "b">>)},
     {join(dirname(Cwd), <<"b", "u", "n", ".", "l", "o", "c", "k">>)}}

\* getYarnMajorVersion(cwd): yarn 1, and yarn 4
YarnMajors == {1, 4}

\* result.status of the install command
Statuses == {0, 1}

\* findMonorepoRoot(cwd) finds a monorepo root, here cwd: one install there
RunInstallAtMonorepoRoot ==
    /\ pc = "applied"
    /\ Len(ret.modifiedDirs) > 0
    /\ pc' = "installed"
    /\ \E monorepoRoot \in {Cwd}, existing \in LockfilesOnDisk,
          yarnMajor \in YarnMajors, status \in Statuses :
        \E r \in {runInstall(detectPackageManager(monorepoRoot, existing),
                             monorepoRoot, lockfileOnly(args.argv),
                             yarnMajor, status)} :
            ret' = [ret EXCEPT
                      !.effects = Append(@, r.effect),
                      !.allInstallsSucceeded = r.success]
    /\ UNCHANGED <<op, args, manifestOk, pkgJson, deps, devDeps, pmVersion, nmVersion,
                   lookups, evaluated, analysis, minimalFixes, analysisAfter>>

RECURSIVE Upward(_)
\* a directory and the directories above it
Upward(dir) ==
    IF dir = dirname(dir) THEN {dir} ELSE {dir} \cup Upward(dirname(dir))

\* what findProjectRoot(dir) may return: dir, or a directory above it that
\* is not above cwd
ProjectRootsOf(dir) == {root \in Upward(dir) : startsWith(root, Cwd)}

\* findMonorepoRoot(cwd) is null: the project roots of the modified
\* directories are collected
RunProjectRoots ==
    /\ pc = "applied"
    /\ Len(ret.modifiedDirs) > 0
    /\ pc' = "installing"
    /\ \E rootOf \in [{ret.modifiedDirs[i] : i \in 1..Len(ret.modifiedDirs)}
                        -> UNION {ProjectRootsOf(ret.modifiedDirs[i]) :
                                    i \in 1..Len(ret.modifiedDirs)}] :
        /\ \A i \in 1..Len(ret.modifiedDirs) :
              rootOf[ret.modifiedDirs[i]] \in ProjectRootsOf(ret.modifiedDirs[i])
        /\ ret' = [ret EXCEPT !.roots = projectRoots(ret.modifiedDirs, rootOf, <<>>)]
    /\ UNCHANGED <<op, args, manifestOk, pkgJson, deps, devDeps, pmVersion, nmVersion,
                   lookups, evaluated, analysis, minimalFixes, analysisAfter>>

\* one turn of the loop over projectRoots: runInstall for the root
RunInstall ==
    /\ pc = "installing"
    /\ pc' = IF ret.installed + 1 = Len(ret.roots) THEN "installed" ELSE "installing"
    /\ \E root \in {ret.roots[ret.installed + 1]}, existing \in LockfilesOnDisk,
          yarnMajor \in YarnMajors, status \in Statuses :
        \E r \in {runInstall(detectPackageManager(root, existing), root,
                             lockfileOnly(args.argv), yarnMajor, status)} :
            ret' = [ret EXCEPT
                      !.installed = @ + 1,
                      !.effects = Append(@, r.effect),
                      !.allInstallsSucceeded = @ /\ r.success]
    /\ UNCHANGED <<op, args, manifestOk, pkgJson, deps, devDeps, pmVersion, nmVersion,
                   lookups, evaluated, analysis, minimalFixes, analysisAfter>>

NextRun ==
    \/ FindPackageJsons
    \/ RunAnalyze
    \/ RunPlan
    \/ RunReturn
    \/ RunExit
    \/ RunApply
    \/ RunInstallAtMonorepoRoot
    \/ RunProjectRoots
    \/ RunInstall

SpecRun == InitRun /\ [][NextRun]_vars

(***************************************************************************)
(* Properties of run() and applyFixes.                                     *)
(***************************************************************************)
\* the effects of the kind given, in a log of effects
EffectsOf(effects, kind) == {i \in 1..Len(effects) : effects[i].kind = kind}

\* C22: with --dry-run or -d on the command line, run() writes no
\* package.json and invokes no install command, whatever the other flags.
C22_DryRunNoEffects ==
    (op = "run" /\ ("--dry-run" \in args.argv \/ "-d" \in args.argv)) =>
        /\ ret.effects = <<>>
        /\ pc \notin {"applying", "applied", "installing", "installed"}
        /\ \A f \in 1..Len(args.files) :
              deps[f] = args.files[f].deps /\ devDeps[f] = args.files[f].devDeps

\* a dry run with -d and --fix on a project with fixes has returned
C22_Witness ==
    /\ op = "run" /\ pc = "done"
    /\ "-d" \in args.argv /\ "--dry-run" \notin args.argv
    /\ "--fix" \in args.argv /\ "--json" \notin args.argv
    /\ minimalFixes # <<>>
    /\ ret.effects = <<>>

\* C26: with --json, run() returns after the report without writing a
\* package.json and without an install command, also with --fix; the
\* manifests are the same before and after every step of the run.
C26_JsonNoEffects ==
    [][(op = "run" /\ "--json" \in args.argv) =>
          /\ deps' = deps /\ devDeps' = devDeps
          /\ ret'.effects = <<>>
          /\ pc' \notin {"applying", "applied", "installing", "installed", "exited"}]_vars

\* a run with --json and --fix on a project with fixes has returned
C26_Witness ==
    /\ op = "run" /\ pc = "done"
    /\ "--json" \in args.argv /\ "--fix" \in args.argv
    /\ "--dry-run" \notin args.argv /\ "-d" \notin args.argv
    /\ minimalFixes # <<>>
    /\ ret.effects = <<>>

\* a dry run and a run with --json that found no package.json, and that
\* found one that cannot be read, have returned
ReturnedWithoutManifest ==
    /\ op = "run" /\ pc = "done"
    /\ "-d" \in args.argv \/ "--json" \in args.argv
    /\ \A f \in 1..Len(args.files) : ~args.files[f].ok

\* the package.json files with an entry that is not what the run found
ModifiedFiles ==
    {f \in 1..Len(args.files) :
        deps[f] # args.files[f].deps \/ devDeps[f] # args.files[f].devDeps}

\* no fix of the run has a target version
NoTarget ==
    \A k \in 1..Len(minimalFixes) :
        \A i \in 1..Len(minimalFixes[k].fixes) :
            ~Truthy(minimalFixes[k].fixes[i].patched)

\* C27: in every run an install command is invoked only after all the
\* writes of package.json files of the run, and only if a package.json was
\* modified, that is, has an entry that differs from what the run found;
\* when no fix has a target version, no file is written and no install is
\* run.
C27_InstallAfterWrites ==
    op = "run" =>
        /\ \A i \in EffectsOf(ret.effects, "install") :
              /\ \A j \in EffectsOf(ret.effects, "write") : j < i
              /\ ModifiedFiles # {}
        /\ NoTarget => ret.effects = <<>>

\* the installs of a run come after all its writes, when every file of
\* minimalFixes has had its turn, and only after a write; every write is
\* of a file applyFixes reported as modified, and no file is written twice
InstallAfterWrittenFiles ==
    op = "run" =>
        /\ \A i \in EffectsOf(ret.effects, "install") :
              /\ \A j \in EffectsOf(ret.effects, "write") : j < i
              /\ EffectsOf(ret.effects, "write") # {}
              /\ ret.applied = Len(minimalFixes)
        /\ Cardinality(EffectsOf(ret.effects, "write")) = Len(ret.modifiedDirs)
        /\ \A i, j \in EffectsOf(ret.effects, "write") :
              ret.effects[i].path = ret.effects[j].path => i = j
        /\ ModifiedFiles # {} => EffectsOf(ret.effects, "write") # {}
        /\ NoTarget => ret.effects = <<>>

\* two files were written and then an install was run for each of two roots
InstalledAfterTwoWrites ==
    /\ op = "run" /\ pc = "installed"
    /\ Len(ret.effects) = 4
    /\ ret.effects[1].kind = "write" /\ ret.effects[2].kind = "write"
    /\ ret.effects[3].kind = "install" /\ ret.effects[4].kind = "install"
    /\ ret.effects[3].cwd # ret.effects[4].cwd

\* a file was written with the entries it had, and an install was run
InstalledUnmodified ==
    /\ op = "run" /\ pc = "installed"
    /\ EffectsOf(ret.effects, "write") # {}
    /\ ModifiedFiles = {}

\* the entry of package p in block d may be changed by the fixes: a fix with
\* a target names p, flags the block, and p is declared in it
MayChange(fixes, d, p, inBlock) ==
    \E i \in 1..Len(fixes) :
        /\ fixes[i].package = p
        /\ Truthy(fixes[i].patched)
        /\ inBlock[i]
        /\ Truthy(d[p])

\* applyFixes leaves every entry alone that no fix may change, and every
\* other file
ApplyFrame ==
    [][(op = "run" /\ ret'.applied # ret.applied) =>
          \A f \in {FileIndex(FileInTurn.path)} :
              /\ \A p \in Packages :
                  /\ deps'[f][p] # deps[f][p] =>
                        MayChange(FileInTurn.fixes, deps[f], p,
                                  [i \in 1..Len(FileInTurn.fixes) |->
                                      FileInTurn.fixes[i].inDeps])
                  /\ devDeps'[f][p] # devDeps[f][p] =>
                        MayChange(FileInTurn.fixes, devDeps[f], p,
                                  [i \in 1..Len(FileInTurn.fixes) |->
                                      FileInTurn.fixes[i].inDevDeps])
              /\ \A g \in (1..Len(args.files)) \ {f} :
                    deps'[g] = deps[g] /\ devDeps'[g] = devDeps[g]]_vars

\* C28: applyFixes changes only the entries of packages named by a fix with a
\* target, in the blocks the fix flags and the package is declared in; every
\* other entry is unchanged, the file is written if and only if an entry was
\* changed, and the returned flag says whether it was.
C28_ApplyFixesFrame ==
    [][(op = "run" /\ ret'.applied # ret.applied) =>
          \A f \in {FileIndex(FileInTurn.path)} :
              /\ \A p \in Packages :
                  /\ deps'[f][p] # deps[f][p] =>
                        MayChange(FileInTurn.fixes, deps[f], p,
                                  [i \in 1..Len(FileInTurn.fixes) |->
                                      FileInTurn.fixes[i].inDeps])
                  /\ devDeps'[f][p] # devDeps[f][p] =>
                        MayChange(FileInTurn.fixes, devDeps[f], p,
                                  [i \in 1..Len(FileInTurn.fixes) |->
                                      FileInTurn.fixes[i].inDevDeps])
              /\ \A g \in (1..Len(args.files)) \ {f} :
                    deps'[g] = deps[g] /\ devDeps'[g] = devDeps[g]
              /\ (ret'.effects # ret.effects)
                    <=> (deps'[f] # deps[f] \/ devDeps'[f] # devDeps[f])
              /\ ret'.effects \in {ret.effects,
                                   Append(ret.effects, Write(FileInTurn.path))}
              /\ ret'.modified <=> (deps'[f] # deps[f] \/ devDeps'[f] # devDeps[f])]_vars

====
